---- MODULE Spec2Model ----
(***************************************************************************)
(* A model of the CVRF core of openscap (src/CVRF/cvrf_eval.c): the        *)
(* document model, the platform matcher/filter, the results assembler and  *)
(* the serializer/parser pair.                                             *)
(*                                                                         *)
(* Strings are sequences of one-character strings; NULL is the null        *)
(* pointer.  The oscap_stringlist objects owned by ProductStatus entries   *)
(* live in an explicit heap, because the filter makes entries share them.  *)
(***************************************************************************)
EXTENDS Integers, Sequences, FiniteSets, TLC

VARIABLES
    model,      \* the struct cvrf_model the calls operate on
    heap,       \* the oscap_stringlist objects of the ProductStatus entries
    cpe,        \* the platform identifier (session->os_name)
    prod,       \* the product argument of a per-vulnerability call
    pc,         \* which call has returned
    ret,        \* the return value of that call
    orig,       \* the model (SpecIndex: the index) as it was built, before any call
    origHeap,   \* the heap as it was built
    vrets,      \* return values of the per-vulnerability filter calls
    product_ids,\* session->product_ids
    out,        \* the value returned by a call that returns no status code
    dom,        \* the xmlNode tree built by a serializer call
    def_model,  \* session->def_model, the registry of synthesized rule records
    index,      \* session->index, the Models of a struct cvrf_index
    it,         \* how many items the running loop has taken from its iterator
    saved,      \* the document handed to oscap_source_save_as (Nil: none)
    reader      \* the xmlTextReader: the nodes of its document and its cursor

vars == <<model, heap, cpe, prod, pc, ret, orig, origHeap, vrets, product_ids, out, dom,
          def_model, index, it, saved, reader>>

\* a reader over no document
NoReader == [nodes |-> <<>>, pos |-> 1]

(***************************************************************************)
(* Bounds of the model.                                                    *)
(***************************************************************************)
MaxIds == 2         \* product ids per ProductStatus entry
MaxStatuses == 2    \* ProductStatus entries per Vulnerability
MaxNodes == 2       \* Branches of a ProductTree, at any depth (Spec)
MaxSearchNodes == 5 \* Branches of a ProductTree, at any depth (SpecSearch)
MaxRels == 2        \* Relationships of a ProductTree
MaxVulns == 2       \* Vulnerabilities of a Model
MaxResults == 2     \* matched product ids of a session
MaxSynthIds == 3    \* product ids of one synthesis pass
MaxBranchNodes == 3 \* Branch elements of a ProductTree element (SpecTree)
MaxModels == 2      \* Models of an Index
MaxItems == 3       \* items of a container element (SpecContainer)
MaxParts == 2       \* document-level elements of a cvrfdoc element (SpecParse)

(***************************************************************************)
(* Strings.                                                                *)
(***************************************************************************)
NULL == <<"NULL">>

SeqsUpTo(S, n) == UNION {[1..k -> S] : k \in 0..n}

\* oscap_str_startswith(str, prefix)
oscap_str_startswith(str, prefix) ==
    /\ Len(prefix) <= Len(str)
    /\ SubSeq(str, 1, Len(prefix)) = prefix

RECURSIVE Flatten(_)
Flatten(ss) == IF ss = <<>> THEN <<>> ELSE Head(ss) \o Flatten(Tail(ss))

(***************************************************************************)
(* Product ids used in the bounded inputs.                                 *)
(***************************************************************************)
IdP == <<"p">>
IdQ == <<"q">>
IdPX == <<"p", ":", "x">>
IdPY == <<"p", ":", "y">>
IdQX == <<"q", ":", "x">>

(***************************************************************************)
(* Null pointers to structures and to xmlNodes.                            *)
(***************************************************************************)
Nil == [nil |-> TRUE]

(***************************************************************************)
(* Enumerations.  A lookup table is a set of pairs <<value, text>>; a      *)
(* value outside the table (UNKNOWN included) has no text, and a text      *)
(* outside the table parses to UNKNOWN.                                    *)
(***************************************************************************)
UNKNOWN == "UNKNOWN"

EnumText(table, value) ==
    IF \E e \in table : e[1] = value
    THEN (CHOOSE e \in table : e[1] = value)[2]
    ELSE NULL

EnumParse(table, text) ==
    IF \E e \in table : e[2] = text
    THEN (CHOOSE e \in table : e[2] = text)[1]
    ELSE UNKNOWN

RemediationTypeMap == {<<"VENDOR_FIX", <<"Vendor Fix">>>>, <<"WORKAROUND", <<"Workaround">>>>}
ThreatTypeMap == {<<"IMPACT", <<"Impact">>>>, <<"EXPLOIT_STATUS", <<"Exploit Status">>>>}
ProductStatusTypeMap == {<<"FIXED", <<"Fixed">>>>, <<"KNOWN_AFFECTED", <<"Known Affected">>>>}
InvolvementStatusMap == {<<"OPEN", <<"Open">>>>, <<"COMPLETED", <<"Completed">>>>}
DocPublisherTypeMap == {<<"VENDOR", <<"Vendor">>>>, <<"DISCOVERER", <<"Discoverer">>>>}
RelationshipTypeMap == {<<"DEFAULT_COMPONENT_OF", <<"Default Component Of">>>>,
                        <<"INSTALLED_ON", <<"Installed On">>>>}
BranchTypeMap == {<<"VENDOR", <<"Vendor">>>>,
                  <<"PRODUCT_FAMILY", <<"Product Family">>>>,
                  <<"PRODUCT_VERSION", <<"Product Version">>>>}
ReferenceTypeMap == {<<"SELF", <<"Self">>>>, <<"EXTERNAL", <<"External">>>>}
NoteTypeMap == {<<"GENERAL", <<"General">>>>, <<"DETAILS", <<"Details">>>>}
DocStatusTypeMap == {<<"DRAFT", <<"Draft">>>>, <<"FINAL", <<"Final">>>>}

cvrf_remediation_type_get_text(type) == EnumText(RemediationTypeMap, type)
cvrf_threat_type_get_text(type) == EnumText(ThreatTypeMap, type)
cvrf_product_status_type_get_text(type) == EnumText(ProductStatusTypeMap, type)
cvrf_involvement_status_type_get_text(type) == EnumText(InvolvementStatusMap, type)
cvrf_doc_publisher_type_get_text(type) == EnumText(DocPublisherTypeMap, type)
cvrf_relationship_type_get_text(type) == EnumText(RelationshipTypeMap, type)
cvrf_branch_type_get_text(type) == EnumText(BranchTypeMap, type)
cvrf_reference_type_get_text(type) == EnumText(ReferenceTypeMap, type)
cvrf_note_type_get_text(type) == EnumText(NoteTypeMap, type)
cvrf_doc_status_type_get_text(type) == EnumText(DocStatusTypeMap, type)

(***************************************************************************)
(* Numbers in text: oscap_sprintf("%d"), strtol(.., 10), "%f" and strtod.  *)
(* Scores are whole numbers here, so "%f" writes six zero decimals.        *)
(***************************************************************************)
Digits == <<"0", "1", "2", "3", "4", "5", "6", "7", "8", "9">>

IsDigit(c) == \E d \in 1..Len(Digits) : Digits[d] = c

DigitValue(c) == (CHOOSE d \in 1..Len(Digits) : Digits[d] = c) - 1

RECURSIVE NatToText(_)
NatToText(n) ==
    IF n < Len(Digits)
    THEN <<Digits[n + 1]>>
    ELSE NatToText(n \div Len(Digits)) \o <<Digits[(n % Len(Digits)) + 1]>>

\* oscap_sprintf("%d", n)
IntToText(n) == IF n < 0 THEN <<"-">> \o NatToText(-n) ELSE NatToText(n)

\* the value of the longest prefix of digits of text, after acc
RECURSIVE LeadingDigits(_, _)
LeadingDigits(text, acc) ==
    IF text = <<>> \/ ~IsDigit(Head(text))
    THEN acc
    ELSE LeadingDigits(Tail(text), acc * Len(Digits) + DigitValue(Head(text)))

\* strtol(text, NULL, 10): 0 when the text does not start with a number
strtol(text) ==
    IF text # <<>> /\ Head(text) = "-"
    THEN -LeadingDigits(Tail(text), 0)
    ELSE LeadingDigits(text, 0)

\* oscap_sprintf("%f", score) for a whole score
FloatToText(score) == IntToText(score) \o <<".", "0", "0", "0", "0", "0", "0">>

\* strtod(text, NULL) for the texts of whole scores
strtod(text) == strtol(text)

(***************************************************************************)
(* The entities of the document model, as their constructors build them.   *)
(* A list (oscap_list, oscap_stringlist) is a sequence, except the id list *)
(* of a ProductStatus, which is held by address (see the heap below).      *)
(***************************************************************************)
cvrf_remediation_new ==
    [type |-> UNKNOWN, date |-> NULL, description |-> NULL, url |-> NULL,
     entitlement |-> NULL, product_ids |-> <<>>, group_ids |-> <<>>]

\* cvss_impact_new: no metric of any category yet
cvss_impact_new == [base |-> Nil, environmental |-> Nil, temporal |-> Nil]

cvrf_score_set_new ==
    [vector |-> NULL, impact |-> cvss_impact_new, product_ids |-> <<>>]

cvrf_threat_new ==
    [type |-> UNKNOWN, date |-> NULL, description |-> NULL,
     product_ids |-> <<>>, group_ids |-> <<>>]

cvrf_involvement_new ==
    [status |-> UNKNOWN, party |-> UNKNOWN, description |-> NULL]

cvrf_vulnerability_cwe_new == [cwe |-> NULL, id |-> NULL]

cvrf_vulnerability_new ==
    [ordinal |-> 0, title |-> NULL, system_id |-> NULL, system_name |-> NULL,
     discovery_date |-> NULL, release_date |-> NULL, cve_id |-> NULL,
     cwes |-> <<>>, notes |-> <<>>, involvements |-> <<>>, score_sets |-> <<>>,
     product_statuses |-> <<>>, threats |-> <<>>, remediations |-> <<>>,
     references |-> <<>>, acknowledgments |-> <<>>]

cvrf_group_new == [group_id |-> NULL, description |-> NULL, product_ids |-> <<>>]

cvrf_acknowledgment_new ==
    [names |-> <<>>, organizations |-> <<>>, description |-> NULL, urls |-> <<>>]

cvrf_note_new ==
    [type |-> UNKNOWN, ordinal |-> 0, audience |-> NULL, title |-> NULL,
     contents |-> NULL]

cvrf_revision_new == [number |-> NULL, date |-> NULL, description |-> NULL]

cvrf_doc_tracking_new ==
    [tracking_id |-> NULL, aliases |-> <<>>, status |-> UNKNOWN, version |-> NULL,
     revision_history |-> <<>>, init_release_date |-> NULL,
     cur_release_date |-> NULL, generator_engine |-> NULL,
     generator_date |-> NULL]

cvrf_doc_publisher_new ==
    [type |-> UNKNOWN, vendor_id |-> NULL, contact_details |-> NULL,
     issuing_authority |-> NULL]

cvrf_reference_new == [type |-> UNKNOWN, url |-> NULL, description |-> NULL]

cvrf_document_new ==
    [doc_distribution |-> NULL, aggregate_severity |-> NULL, namespace |-> NULL,
     tracking |-> cvrf_doc_tracking_new, publisher |-> cvrf_doc_publisher_new,
     doc_notes |-> <<>>, doc_references |-> <<>>, acknowledgments |-> <<>>]

(***************************************************************************)
(* struct cvrf_product_status: a category and an owned stringlist, held    *)
(* by address.  A heap cell is a list of ids and a liveness flag.          *)
(***************************************************************************)
StatusTypes == {"FIXED", "KNOWN_AFFECTED"}

\* cvrf_product_status_new / cvrf_product_status_parse: each entry gets a
\* stringlist of its own.  vs is a sequence (per vulnerability) of sequences
\* of [type, ids].
NewHeap(vs) ==
    LET all == Flatten(vs)
    IN  [a \in 1..Len(all) |-> [live |-> TRUE, ids |-> all[a].ids]]

NewVulnerabilities(vs) ==
    [i \in 1..Len(vs) |->
        [cvrf_vulnerability_new EXCEPT
            !.ordinal = i,
            !.product_statuses =
                [j \in 1..Len(vs[i]) |->
                    [type |-> vs[i][j].type,
                     product_ids |-> Len(Flatten(SubSeq(vs, 1, i - 1))) + j]]]]

\* cvrf_product_status_get_ids, for every entry of a vulnerability
StatusIds(vuln, h) ==
    [j \in 1..Len(vuln.product_statuses) |-> h[vuln.product_statuses[j].product_ids].ids]

\* oscap_stringlist_free
FreeList(h, a) == [h EXCEPT ![a] = [live |-> FALSE, ids |-> <<>>]]

(***************************************************************************)
(* cvrf_vulnerability_filter_by_product: filtered_ids is allocated once,   *)
(* before the loop over the ProductStatus entries.                         *)
(***************************************************************************)
\* Mutant: the test looks at what this entry kept, not at the whole list
RECURSIVE FilterStatuses_TestsOwnIds(_, _, _, _, _)
FilterStatuses_TestsOwnIds(stats, j, p, f, h) ==
    IF j > Len(stats)
    THEN [ret |-> 0, statuses |-> stats, heap |-> h]
    ELSE LET stat == stats[j]
             kept == SelectSeq(h[stat.product_ids].ids,
                               LAMBDA id : oscap_str_startswith(id, p))
             h1 == [h EXCEPT ![f].ids = @ \o kept]
         IN  IF Len(kept) = 0
             THEN [ret |-> -1, statuses |-> stats, heap |-> FreeList(h1, f)]
             ELSE FilterStatuses_TestsOwnIds([stats EXCEPT ![j].product_ids = f], j + 1,
                                             p, f, FreeList(h1, stat.product_ids))

RECURSIVE FilterStatuses(_, _, _, _, _)
FilterStatuses(stats, j, p, f, h) ==
    IF j > Len(stats)
    THEN [ret |-> 0, statuses |-> stats, heap |-> h]
    ELSE LET stat == stats[j]
             kept == SelectSeq(h[stat.product_ids].ids,
                               LAMBDA id : oscap_str_startswith(id, p))
             h1 == [h EXCEPT ![f].ids = @ \o kept]
         IN  IF Len(h1[f].ids) = 0
             THEN [ret |-> -1, statuses |-> stats, heap |-> FreeList(h1, f)]
             ELSE FilterStatuses([stats EXCEPT ![j].product_ids = f], j + 1, p, f,
                                 FreeList(h1, stat.product_ids))

\* Mutant: the entries that were not given the narrowed list are dropped
cvrf_vulnerability_filter_by_product_DropsEntries(vuln, p, h) ==
    LET f == Len(h) + 1
        r == FilterStatuses(vuln.product_statuses, 1, p, f,
                            Append(h, [live |-> TRUE, ids |-> <<>>]))
    IN  [ret |-> r.ret,
         vuln |-> [vuln EXCEPT !.product_statuses =
                      SelectSeq(r.statuses, LAMBDA stat : stat.product_ids = f)],
         heap |-> r.heap]

cvrf_vulnerability_filter_by_product(vuln, p, h) ==
    LET f == Len(h) + 1
        r == FilterStatuses(vuln.product_statuses, 1, p, f,
                            Append(h, [live |-> TRUE, ids |-> <<>>]))
    IN  [ret |-> r.ret,
         vuln |-> [vuln EXCEPT !.product_statuses = r.statuses],
         heap |-> r.heap]

(***************************************************************************)
(* struct cvrf_product_name, struct cvrf_branch, struct cvrf_relationship. *)
(***************************************************************************)
\* cvrf_product_name_new
cvrf_product_name_new == [product_id |-> NULL, cpe |-> NULL]

\* cvrf_product_name_clone
cvrf_product_name_clone(full_name) ==
    [product_id |-> full_name.product_id, cpe |-> full_name.cpe]

\* cvrf_relationship_clone
cvrf_relationship_clone(relation) ==
    [relation_type |-> relation.relation_type,
     product_reference |-> relation.product_reference,
     relates_to_ref |-> relation.relates_to_ref,
     product_name |-> cvrf_product_name_clone(relation.product_name)]

\* A Leaf as cvrf_branch_parse builds it from a Branch holding a FullProductName
LeafBranch(name, id) ==
    [type |-> "PRODUCT_VERSION", branch_name |-> name,
     product_name |-> [product_id |-> id, cpe |-> name \o <<" ">> \o id],
     subbranches |-> <<>>]

\* A Family as cvrf_branch_parse builds it from a Branch holding Branches
FamilyBranch(name, kids) ==
    [type |-> "PRODUCT_FAMILY", branch_name |-> name,
     product_name |-> cvrf_product_name_new,
     subbranches |-> kids]

(***************************************************************************)
(* get_cvrf_product_id_from_branch / get_cvrf_product_id_from_cpe: the     *)
(* loops stop at the first non-NULL result.                                *)
(***************************************************************************)
RECURSIVE get_cvrf_product_id_from_branch(_, _)
RECURSIVE SearchBranches(_, _, _)

\* Mutant: the loop does not stop at the first result, the last match wins
RECURSIVE SearchBranches_LastWins(_, _, _)
SearchBranches_LastWins(branches, k, c) ==
    IF k > Len(branches)
    THEN NULL
    ELSE LET product_id == get_cvrf_product_id_from_branch(branches[k], c)
             later == SearchBranches_LastWins(branches, k + 1, c)
         IN  IF later # NULL THEN later ELSE product_id

\* while (has_more(it) && product_id == NULL) product_id = from_branch(next(it), cpe)
SearchBranches(branches, k, c) ==
    IF k > Len(branches)
    THEN NULL
    ELSE LET product_id == get_cvrf_product_id_from_branch(branches[k], c)
         IN  IF product_id # NULL THEN product_id
             ELSE SearchBranches(branches, k + 1, c)

get_cvrf_product_id_from_branch(branch, c) ==
    IF branch.type = "PRODUCT_FAMILY"
    THEN SearchBranches(branch.subbranches, 1, c)
    ELSE IF branch.branch_name = c
         THEN branch.product_name.product_id
         ELSE NULL

get_cvrf_product_id_from_cpe(tree, c) == SearchBranches(tree.branches, 1, c)

(***************************************************************************)
(* cvrf_product_tree_filter_by_cpe                                         *)
(***************************************************************************)
\* Mutant: the loop keeps every Relationship, whatever it relates to
FilteredRelation_KeepsAll(relationships, branch_id) ==
    [k \in 1..Len(relationships) |-> cvrf_relationship_clone(relationships[k])]

\* the relationships that pass the test of the loop, cloned, in list order
FilteredRelation(relationships, branch_id) ==
    LET kept == SelectSeq(relationships, LAMBDA r : branch_id = r.relates_to_ref)
    IN  [k \in 1..Len(kept) |-> cvrf_relationship_clone(kept[k])]

\* Mutant: the narrowed list replaces the tree's list before the count is tested
cvrf_product_tree_filter_by_cpe_AssignsFirst(tree, c) ==
    LET branch_id == get_cvrf_product_id_from_cpe(tree, c)
    IN  IF branch_id = NULL
        THEN [ret |-> -1, tree |-> tree]
        ELSE LET filtered_relation == FilteredRelation(tree.relationships, branch_id)
             IN  [ret |-> IF Len(filtered_relation) = 0 THEN -1 ELSE 0,
                  tree |-> [tree EXCEPT !.relationships = filtered_relation]]

cvrf_product_tree_filter_by_cpe(tree, c) ==
    LET branch_id == get_cvrf_product_id_from_cpe(tree, c)
    IN  IF branch_id = NULL
        THEN [ret |-> -1, tree |-> tree]
        ELSE LET filtered_relation == FilteredRelation(tree.relationships, branch_id)
             IN  IF Len(filtered_relation) = 0
                 THEN [ret |-> -1, tree |-> tree]
                 ELSE [ret |-> 0,
                       tree |-> [tree EXCEPT !.relationships = filtered_relation]]

(***************************************************************************)
(* cvrf_model_filter_by_cpe: the per-vulnerability return values are       *)
(* discarded by the code; they are kept here in vrets for the record.      *)
(***************************************************************************)
\* Mutant: the loop over the vulnerabilities breaks at the first failure
RECURSIVE FilterVulnerabilities_StopsAtFailure(_, _, _, _, _)
FilterVulnerabilities_StopsAtFailure(vulns, i, product, h, rets) ==
    IF i > Len(vulns)
    THEN [vulnerabilities |-> vulns, heap |-> h, vrets |-> rets]
    ELSE LET r == cvrf_vulnerability_filter_by_product(vulns[i], product, h)
         IN  IF r.ret = -1
             THEN [vulnerabilities |-> [vulns EXCEPT ![i] = r.vuln], heap |-> r.heap,
                   vrets |-> Append(rets, r.ret)]
             ELSE FilterVulnerabilities_StopsAtFailure([vulns EXCEPT ![i] = r.vuln],
                                                       i + 1, product, r.heap,
                                                       Append(rets, r.ret))

RECURSIVE FilterVulnerabilities(_, _, _, _, _)
FilterVulnerabilities(vulns, i, product, h, rets) ==
    IF i > Len(vulns)
    THEN [vulnerabilities |-> vulns, heap |-> h, vrets |-> rets]
    ELSE LET r == cvrf_vulnerability_filter_by_product(vulns[i], product, h)
         IN  FilterVulnerabilities([vulns EXCEPT ![i] = r.vuln], i + 1, product,
                                   r.heap, Append(rets, r.ret))

\* Mutant: the return value of the tree filter is not tested
cvrf_model_filter_by_cpe_IgnoresTree(m, c, h) ==
    LET product == get_cvrf_product_id_from_cpe(m.tree, c)
        t == cvrf_product_tree_filter_by_cpe(m.tree, c)
        r == FilterVulnerabilities(m.vulnerabilities, 1, product, h, <<>>)
    IN  [ret |-> 0,
         model |-> [m EXCEPT !.tree = t.tree, !.vulnerabilities = r.vulnerabilities],
         heap |-> r.heap, vrets |-> r.vrets]

cvrf_model_filter_by_cpe(m, c, h) ==
    LET product == get_cvrf_product_id_from_cpe(m.tree, c)
        t == cvrf_product_tree_filter_by_cpe(m.tree, c)
    IN  IF t.ret = -1
        THEN [ret |-> -1, model |-> [m EXCEPT !.tree = t.tree], heap |-> h,
              vrets |-> <<>>]
        ELSE LET r == FilterVulnerabilities(m.vulnerabilities, 1, product, h, <<>>)
             IN  [ret |-> 0,
                  model |-> [m EXCEPT !.tree = t.tree,
                                      !.vulnerabilities = r.vulnerabilities],
                  heap |-> r.heap, vrets |-> r.vrets]

(***************************************************************************)
(* struct cvrf_model, as cvrf_model_new builds it and the parser fills it. *)
(***************************************************************************)
cvrf_product_tree_new ==
    [product_names |-> <<>>, branches |-> <<>>, relationships |-> <<>>,
     product_groups |-> <<>>]

cvrf_model_new ==
    [doc_title |-> NULL, doc_type |-> NULL, document |-> cvrf_document_new,
     tree |-> cvrf_product_tree_new, vulnerabilities |-> <<>>]

\* What the accessors show of a model: every ProductStatus with the ids its
\* stringlist holds.
ModelView(m, h) ==
    [m EXCEPT !.vulnerabilities =
        [i \in 1..Len(m.vulnerabilities) |->
            [m.vulnerabilities[i] EXCEPT !.product_statuses =
                [j \in 1..Len(m.vulnerabilities[i].product_statuses) |->
                    [type |-> m.vulnerabilities[i].product_statuses[j].type,
                     ids |-> h[m.vulnerabilities[i].product_statuses[j].product_ids].ids]]]]]

(***************************************************************************)
(* xmlNode trees.  A node has a tag, attributes in the order they were     *)
(* set, a text content (NULL when it has none), element children in order  *)
(* and its namespace declarations.  The libxml2 calls that modify a node   *)
(* in place return the modified node here.                                 *)
(***************************************************************************)
CVRF_NS == <<"http://www.icasi.org/CVRF/schema/cvrf/1.1">>
VULN_NS == <<"http://www.icasi.org/CVRF/schema/vuln/1.1">>
PROD_NS == <<"PROD_NS">>

xmlNewNode(name) ==
    [name |-> name, attrs |-> <<>>, content |-> NULL, children |-> <<>>,
     nsDef |-> <<>>]

xmlNewNs(node, href, prefix) ==
    [node EXCEPT !.nsDef = Append(@, <<href, prefix>>)]

\* xmlNewProp on no node sets nothing
xmlNewProp(node, name, value) ==
    IF node = Nil THEN Nil ELSE [node EXCEPT !.attrs = Append(@, <<name, value>>)]

xmlNodeAddContent(node, content) ==
    [node EXCEPT !.content = IF @ = NULL THEN content ELSE @ \o content]

\* xmlAddChild(parent, child): the parent with the child appended
xmlAddChild(parent, child) ==
    IF parent = Nil \/ child = Nil
    THEN parent
    ELSE [parent EXCEPT !.children = Append(@, child)]

\* The node xmlNewTextChild(parent, NULL, name, content) creates; the caller
\* appends it to the parent with xmlAddChild.
xmlNewTextChild(name, content) ==
    IF content = NULL THEN xmlNewNode(name) ELSE xmlNodeAddContent(xmlNewNode(name), content)

\* xmlAddSibling on a list of siblings held by its first node
xmlAddSibling(siblings, node) ==
    IF siblings = <<>> \/ node = Nil THEN siblings ELSE Append(siblings, node)

\* xmlAddChildList(parent, first sibling)
xmlAddChildList(parent, siblings) ==
    [parent EXCEPT !.children = @ \o siblings]

(***************************************************************************)
(* Serialization helper functions.                                         *)
(***************************************************************************)
\* cvrf_element_to_dom
cvrf_element_to_dom(elm_name, elm_value) ==
    IF elm_value = NULL
    THEN Nil
    ELSE xmlNodeAddContent(xmlNewNode(elm_name), elm_value)

\* cvrf_element_add_child
cvrf_element_add_child(elm_name, elm_value, parent) ==
    IF elm_value = NULL
    THEN parent
    ELSE xmlAddChild(parent, cvrf_element_to_dom(elm_name, elm_value))

\* cvrf_element_add_attribute
cvrf_element_add_attribute(attr_name, attr_value, element) ==
    IF attr_value = NULL THEN element ELSE xmlNewProp(element, attr_name, attr_value)

\* cvrf_element_add_ordinal
cvrf_element_add_ordinal(ordinal, element) ==
    xmlNewProp(element, "Ordinal", IntToText(ordinal))

\* cvrf_element_add_stringlist
cvrf_element_add_stringlist(list, tag_name, parent) ==
    IF Len(list) = 0
    THEN parent
    ELSE [parent EXCEPT !.children =
             @ \o [k \in 1..Len(list) |-> xmlNewTextChild(tag_name, list[k])]]

\* cvrf_item_type_get_container
cvrf_item_type_get_container(cvrf_type) ==
    CASE cvrf_type = "CVRF_REVISION" -> "RevisionHistory"
      [] cvrf_type = "CVRF_NOTE" -> "Notes"
      [] cvrf_type = "CVRF_DOCUMENT_NOTE" -> "DocumentNotes"
      [] cvrf_type = "CVRF_REFERENCE" -> "References"
      [] cvrf_type = "CVRF_DOCUMENT_REFERENCE" -> "DocumentReferences"
      [] cvrf_type = "CVRF_ACKNOWLEDGMENT" -> "Acknowledgments"
      [] cvrf_type = "CVRF_GROUP" -> "ProductGroups"
      [] cvrf_type = "CVRF_INVOLVEMENT" -> "Involvements"
      [] cvrf_type = "CVRF_PRODUCT_STATUS" -> "ProductStatuses"
      [] cvrf_type = "CVRF_THREAT" -> "Threats"
      [] cvrf_type = "CVRF_SCORE_SET" -> "CVSSScoreSets"
      [] cvrf_type = "CVRF_REMEDIATION" -> "Remediations"

(***************************************************************************)
(* Serialization of the entities that hold no list of entities.            *)
(***************************************************************************)
\* cvrf_remediation_to_dom: no Date attribute is written
cvrf_remediation_to_dom(remed) ==
    LET n0 == cvrf_element_add_attribute("Type", cvrf_remediation_type_get_text(remed.type),
                                         xmlNewNode("Remediation"))
        desc_node == xmlNewProp(cvrf_element_to_dom("Description", remed.description),
                                "xml:lang", <<"en">>)
        n1 == xmlAddChild(n0, desc_node)
        n2 == cvrf_element_add_child("URL", remed.url, n1)
        n3 == cvrf_element_add_child("Entitlement", remed.entitlement, n2)
        n4 == cvrf_element_add_stringlist(remed.product_ids, "ProductID", n3)
    IN  cvrf_element_add_stringlist(remed.group_ids, "GroupID", n4)

\* cvrf_score_set_get_score
cvrf_score_set_get_score(metric) ==
    IF metric = Nil THEN NULL
    ELSE IF metric.nan THEN NULL
    ELSE FloatToText(metric.score)

\* cvrf_score_set_to_dom
cvrf_score_set_to_dom(score_set) ==
    LET n0 == xmlNewNode("ScoreSet")
        n1 == cvrf_element_add_child("BaseScore",
                  cvrf_score_set_get_score(score_set.impact.base), n0)
        n2 == cvrf_element_add_child("EnvironmentalScore",
                  cvrf_score_set_get_score(score_set.impact.environmental), n1)
        n3 == cvrf_element_add_child("TemporalScore",
                  cvrf_score_set_get_score(score_set.impact.temporal), n2)
        n4 == cvrf_element_add_child("Vector", score_set.vector, n3)
    IN  cvrf_element_add_stringlist(score_set.product_ids, "ProductID", n4)

\* cvrf_threat_to_dom
cvrf_threat_to_dom(threat) ==
    LET n0 == cvrf_element_add_attribute("Type", cvrf_threat_type_get_text(threat.type),
                                         xmlNewNode("Threat"))
        n1 == cvrf_element_add_attribute("Date", threat.date, n0)
        n2 == cvrf_element_add_child("Description", threat.description, n1)
        n3 == cvrf_element_add_stringlist(threat.product_ids, "ProductID", n2)
    IN  cvrf_element_add_stringlist(threat.group_ids, "GroupID", n3)

\* cvrf_product_status_to_dom; the ids are those of the entry's stringlist
cvrf_product_status_to_dom(stat, h) ==
    LET n0 == cvrf_element_add_attribute("Type",
                  cvrf_product_status_type_get_text(stat.type), xmlNewNode("Status"))
    IN  cvrf_element_add_stringlist(h[stat.product_ids].ids, "ProductID", n0)

\* cvrf_involvement_to_dom
cvrf_involvement_to_dom(involve) ==
    LET n0 == cvrf_element_add_attribute("Status",
                  cvrf_involvement_status_type_get_text(involve.status),
                  xmlNewNode("Involvement"))
        n1 == cvrf_element_add_attribute("Party",
                  cvrf_doc_publisher_type_get_text(involve.party), n0)
    IN  cvrf_element_add_child("Description", involve.description, n1)

\* cvrf_vulnerability_cwe_to_dom
cvrf_vulnerability_cwe_to_dom(vuln_cwe) ==
    cvrf_element_add_attribute("ID", vuln_cwe.id, cvrf_element_to_dom("CWE", vuln_cwe.cwe))

\* cvrf_product_name_to_dom
cvrf_product_name_to_dom(full_name) ==
    IF full_name.cpe = NULL
    THEN Nil
    ELSE cvrf_element_add_attribute("ProductID", full_name.product_id,
             cvrf_element_to_dom("FullProductName", full_name.cpe))

\* cvrf_group_to_dom
cvrf_group_to_dom(group) ==
    LET n0 == cvrf_element_add_attribute("GroupID", group.group_id, xmlNewNode("Group"))
        n1 == cvrf_element_add_child("Description", group.description, n0)
    IN  cvrf_element_add_stringlist(group.product_ids, "ProductID", n1)

\* cvrf_relationship_to_dom
cvrf_relationship_to_dom(relation) ==
    LET n0 == cvrf_element_add_attribute("ProductReference", relation.product_reference,
                                         xmlNewNode("Relationship"))
        n1 == cvrf_element_add_attribute("RelationType",
                  cvrf_relationship_type_get_text(relation.relation_type), n0)
        n2 == cvrf_element_add_attribute("RelatesToProductReference",
                  relation.relates_to_ref, n1)
    IN  xmlAddChild(n2, cvrf_product_name_to_dom(relation.product_name))

\* cvrf_acknowledgment_to_dom
cvrf_acknowledgment_to_dom(ack) ==
    LET n0 == cvrf_element_add_stringlist(ack.names, "Name", xmlNewNode("Acknowledgment"))
        n1 == cvrf_element_add_stringlist(ack.organizations, "Organization", n0)
        n2 == cvrf_element_add_child("Description", ack.description, n1)
    IN  cvrf_element_add_stringlist(ack.urls, "URL", n2)

\* cvrf_reference_to_dom
cvrf_reference_to_dom(ref) ==
    LET n0 == cvrf_element_add_attribute("Type", cvrf_reference_type_get_text(ref.type),
                                         xmlNewNode("Reference"))
        n1 == cvrf_element_add_child("URL", ref.url, n0)
    IN  cvrf_element_add_child("Description", ref.description, n1)

\* cvrf_note_to_dom
cvrf_note_to_dom(note) ==
    LET n0 == cvrf_element_to_dom("Note", note.contents)
        n1 == cvrf_element_add_ordinal(note.ordinal, n0)
        n2 == cvrf_element_add_attribute("Type", cvrf_note_type_get_text(note.type), n1)
        n3 == cvrf_element_add_attribute("Title", note.title, n2)
    IN  cvrf_element_add_attribute("Audience", note.audience, n3)

\* cvrf_revision_to_dom
cvrf_revision_to_dom(revision) ==
    LET n0 == cvrf_element_add_child("Number", revision.number, xmlNewNode("Revision"))
        n1 == cvrf_element_add_child("Date", revision.date, n0)
    IN  cvrf_element_add_child("Description", revision.description, n1)

(***************************************************************************)
(* Serialization of lists of entities and of the entities holding them.    *)
(***************************************************************************)
RECURSIVE cvrf_list_to_dom(_, _, _, _)
RECURSIVE cvrf_branch_to_dom(_, _)
RECURSIVE cvrf_vulnerability_to_dom(_, _)

\* the dispatch of cvrf_list_to_dom on the kind of item
ItemToDom(item, cvrf_type, h) ==
    CASE cvrf_type = "CVRF_REVISION" -> cvrf_revision_to_dom(item)
      [] cvrf_type \in {"CVRF_NOTE", "CVRF_DOCUMENT_NOTE"} -> cvrf_note_to_dom(item)
      [] cvrf_type \in {"CVRF_REFERENCE", "CVRF_DOCUMENT_REFERENCE"} ->
             cvrf_reference_to_dom(item)
      [] cvrf_type = "CVRF_ACKNOWLEDGMENT" -> cvrf_acknowledgment_to_dom(item)
      [] cvrf_type = "CVRF_PRODUCT_NAME" -> cvrf_product_name_to_dom(item)
      [] cvrf_type = "CVRF_BRANCH" -> cvrf_branch_to_dom(item, h)
      [] cvrf_type = "CVRF_RELATIONSHIP" -> cvrf_relationship_to_dom(item)
      [] cvrf_type = "CVRF_GROUP" -> cvrf_group_to_dom(item)
      [] cvrf_type = "CVRF_VULNERABILITY" -> cvrf_vulnerability_to_dom(item, h)
      [] cvrf_type = "CVRF_VULNERABILITY_CWE" -> cvrf_vulnerability_cwe_to_dom(item)
      [] cvrf_type = "CVRF_INVOLVEMENT" -> cvrf_involvement_to_dom(item)
      [] cvrf_type = "CVRF_PRODUCT_STATUS" -> cvrf_product_status_to_dom(item, h)
      [] cvrf_type = "CVRF_THREAT" -> cvrf_threat_to_dom(item)
      [] cvrf_type = "CVRF_SCORE_SET" -> cvrf_score_set_to_dom(item)
      [] cvrf_type = "CVRF_REMEDIATION" -> cvrf_remediation_to_dom(item)

\* the loop of cvrf_list_to_dom from item k on
RECURSIVE AddItems(_, _, _, _, _)
AddItems(list, k, parent, cvrf_type, h) ==
    IF k > Len(list)
    THEN parent
    ELSE AddItems(list, k + 1, xmlAddChild(parent, ItemToDom(list[k], cvrf_type, h)),
                  cvrf_type, h)

\* cvrf_list_to_dom: nothing for an empty list; a new container when no parent
\* is given
cvrf_list_to_dom(list, parent, cvrf_type, h) ==
    IF Len(list) = 0
    THEN Nil
    ELSE AddItems(list, 1,
                  IF parent = Nil
                  THEN xmlNewNode(cvrf_item_type_get_container(cvrf_type))
                  ELSE parent,
                  cvrf_type, h)

\* cvrf_list_to_dom(list, parent, ..) called for its effect on a given parent
ListIntoParent(list, parent, cvrf_type, h) ==
    IF Len(list) = 0 THEN parent ELSE cvrf_list_to_dom(list, parent, cvrf_type, h)

\* cvrf_element_add_container
cvrf_element_add_container(list, cvrf_type, parent, h) ==
    xmlAddChild(parent, cvrf_list_to_dom(list, Nil, cvrf_type, h))

\* cvrf_branch_to_dom
cvrf_branch_to_dom(branch, h) ==
    LET n0 == cvrf_element_add_attribute("Type", cvrf_branch_type_get_text(branch.type),
                                         xmlNewNode("Branch"))
        n1 == cvrf_element_add_attribute("Name", branch.branch_name, n0)
    IN  IF branch.type = "PRODUCT_FAMILY"
        THEN ListIntoParent(branch.subbranches, n1, "CVRF_BRANCH", h)
        ELSE xmlAddChild(n1, cvrf_product_name_to_dom(branch.product_name))

\* cvrf_vulnerability_to_dom
cvrf_vulnerability_to_dom(vuln, h) ==
    \* the statements of the routine, the first one innermost
    cvrf_element_add_container(vuln.acknowledgments, "CVRF_ACKNOWLEDGMENT",
     cvrf_element_add_container(vuln.references, "CVRF_REFERENCE",
      cvrf_element_add_container(vuln.remediations, "CVRF_REMEDIATION",
       cvrf_element_add_container(vuln.score_sets, "CVRF_SCORE_SET",
        cvrf_element_add_container(vuln.threats, "CVRF_THREAT",
         cvrf_element_add_container(vuln.product_statuses, "CVRF_PRODUCT_STATUS",
          ListIntoParent(vuln.cwes,
           cvrf_element_add_child("CVE", vuln.cve_id,
            cvrf_element_add_container(vuln.involvements, "CVRF_INVOLVEMENT",
             cvrf_element_add_child("ReleaseDate", vuln.release_date,
              cvrf_element_add_child("DiscoveryDate", vuln.discovery_date,
               cvrf_element_add_container(vuln.notes, "CVRF_NOTE",
                xmlAddChild(
                    cvrf_element_add_child("Title", vuln.title,
                        xmlNewNs(cvrf_element_add_ordinal(vuln.ordinal,
                                     xmlNewNode("Vulnerability")),
                                 VULN_NS, NULL)),
                    IF vuln.system_id # NULL
                    THEN cvrf_element_add_attribute("SystemName", vuln.system_name,
                             xmlNewTextChild("ID", vuln.system_id))
                    ELSE Nil),
                h))),
             h)),
           "CVRF_VULNERABILITY_CWE", h),
          h), h), h), h), h), h)

\* cvrf_product_tree_to_dom
cvrf_product_tree_to_dom(tree, h) ==
    cvrf_element_add_container(tree.product_groups, "CVRF_GROUP",
        ListIntoParent(tree.relationships,
            ListIntoParent(tree.branches,
                ListIntoParent(tree.product_names,
                               xmlNewNs(xmlNewNode("ProductTree"), PROD_NS, NULL),
                               "CVRF_PRODUCT_NAME", h),
                "CVRF_BRANCH", h),
            "CVRF_RELATIONSHIP", h),
        h)

\* cvrf_doc_tracking_to_dom: the Generator is written only with an engine
cvrf_doc_tracking_to_dom(tracking, h) ==
    \* the statements of the routine, the first one innermost
    xmlAddChild(
     cvrf_element_add_child("CurrentReleaseDate", tracking.cur_release_date,
      cvrf_element_add_child("InitialReleaseDate", tracking.init_release_date,
       cvrf_element_add_container(tracking.revision_history, "CVRF_REVISION",
        cvrf_element_add_child("Version", tracking.version,
         cvrf_element_add_child("Status", cvrf_doc_status_type_get_text(tracking.status),
          xmlAddChild(xmlNewNode("DocumentTracking"),
              IF tracking.tracking_id # NULL
              THEN cvrf_element_add_stringlist(tracking.aliases, "Alias",
                       cvrf_element_add_child("ID", tracking.tracking_id,
                           xmlNewTextChild("Identification", NULL)))
              ELSE Nil))),
        h))),
     IF tracking.generator_engine # NULL
     THEN cvrf_element_add_child("Date", tracking.generator_date,
              cvrf_element_add_child("Engine", tracking.generator_engine,
                  xmlNewTextChild("Generator", NULL)))
     ELSE Nil)

\* cvrf_doc_publisher_to_dom: no VendorID attribute is written
cvrf_doc_publisher_to_dom(publisher) ==
    LET n0 == cvrf_element_add_attribute("Type",
                  cvrf_doc_publisher_type_get_text(publisher.type),
                  xmlNewNode("DocumentPublisher"))
        n1 == cvrf_element_add_child("ContactDetails", publisher.contact_details, n0)
    IN  cvrf_element_add_child("IssuingAuthority", publisher.issuing_authority, n1)

\* cvrf_document_to_dom: the list of siblings that starts at the publisher
\* node.  The severity node is added as a sibling of the distribution node,
\* so it is dropped when there is no distribution.
cvrf_document_to_dom(document, h) ==
    LET distribution == cvrf_element_add_attribute("xml:lang", <<"en">>,
                            cvrf_element_to_dom("DocumentDistribution",
                                                document.doc_distribution))
        severity == cvrf_element_add_attribute("Namespace", document.namespace,
                        cvrf_element_to_dom("AggregateSeverity",
                                            document.aggregate_severity))
    IN  xmlAddSibling(
         xmlAddSibling(
          xmlAddSibling(
           xmlAddSibling(
            xmlAddSibling(
             xmlAddSibling(<<cvrf_doc_publisher_to_dom(document.publisher)>>,
                           cvrf_doc_tracking_to_dom(document.tracking, h)),
             cvrf_list_to_dom(document.doc_notes, Nil, "CVRF_DOCUMENT_NOTE", h)),
            distribution),
           IF distribution = Nil THEN Nil ELSE severity),
          cvrf_list_to_dom(document.doc_references, Nil, "CVRF_DOCUMENT_REFERENCE", h)),
         cvrf_list_to_dom(document.acknowledgments, Nil, "CVRF_ACKNOWLEDGMENT", h))

\* The root node with its title, type and document children, as both
\* cvrf_model_to_dom and cvrf_model_results_to_dom start it.
RootNode(m, h) ==
    xmlAddChildList(
        cvrf_element_add_child("DocumentType", m.doc_type,
            xmlAddChild(
                xmlNewNs(xmlNewNs(xmlNewNode("cvrfdoc"), CVRF_NS, NULL), CVRF_NS,
                         <<"cvrf">>),
                cvrf_element_add_attribute("xml:lang", <<"en">>,
                    xmlNewTextChild("DocumentTitle", m.doc_title)))),
        cvrf_document_to_dom(m.document, h))

\* cvrf_model_to_dom
cvrf_model_to_dom(m, h) ==
    ListIntoParent(m.vulnerabilities,
                   xmlAddChild(RootNode(m, h), cvrf_product_tree_to_dom(m.tree, h)),
                   "CVRF_VULNERABILITY", h)

(***************************************************************************)
(* Parsing.  Each routine is given the element the reader is positioned    *)
(* on: its attributes, its text and its child elements in document order.  *)
(* A field assigned at every matching child keeps the last one.            *)
(***************************************************************************)
\* xmlTextReaderGetAttribute
xmlTextReaderGetAttribute(node, name) ==
    IF \E a \in 1..Len(node.attrs) : node.attrs[a][1] = name
    THEN node.attrs[CHOOSE a \in 1..Len(node.attrs) :
                        /\ node.attrs[a][1] = name
                        /\ \A b \in 1..(a - 1) : node.attrs[b][1] # name][2]
    ELSE NULL

\* oscap_element_string_copy / oscap_element_string_get: the text of the
\* element, NULL when it has none
oscap_element_string_copy(node) == node.content

\* xmlTextReaderIsEmptyElement
xmlTextReaderIsEmptyElement(node) == node.children = <<>> /\ node.content = NULL

ChildrenNamed(node, tag) == SelectSeq(node.children, LAMBDA c : c.name = tag)

\* the text of the last child with the tag
LastText(node, tag) ==
    LET cs == ChildrenNamed(node, tag)
    IN  IF cs = <<>> THEN NULL ELSE oscap_element_string_copy(cs[Len(cs)])

\* the texts of all children with the tag
Texts(node, tag) ==
    LET cs == ChildrenNamed(node, tag)
    IN  [k \in 1..Len(cs) |-> oscap_element_string_copy(cs[k])]

\* the longest prefix of nodes with the tag: the nodes the loop of
\* cvrf_parse_container visits
RECURSIVE ItemsWhile(_, _)
ItemsWhile(nodes, tag) ==
    IF nodes = <<>> \/ Head(nodes).name # tag
    THEN <<>>
    ELSE <<Head(nodes)>> \o ItemsWhile(Tail(nodes), tag)

\* the items of every container with the container tag among the children
ContainerItems(node, container_tag, tag) ==
    Flatten([k \in 1..Len(node.children) |->
                IF node.children[k].name = container_tag
                THEN ItemsWhile(node.children[k].children, tag)
                ELSE <<>>])

\* cvrf_parse_element
cvrf_parse_element(node, tagname) ==
    IF node # Nil /\ node.name = tagname THEN oscap_element_string_copy(node) ELSE NULL

\* cvrf_parse_ordinal
cvrf_parse_ordinal(node) == strtol(xmlTextReaderGetAttribute(node, "Ordinal"))

cvrf_remediation_type_parse(node) ==
    EnumParse(RemediationTypeMap, xmlTextReaderGetAttribute(node, "Type"))
cvrf_threat_type_parse(node) ==
    EnumParse(ThreatTypeMap, xmlTextReaderGetAttribute(node, "Type"))
cvrf_product_status_type_parse(node) ==
    EnumParse(ProductStatusTypeMap, xmlTextReaderGetAttribute(node, "Type"))
cvrf_involvement_status_type_parse(node) ==
    EnumParse(InvolvementStatusMap, xmlTextReaderGetAttribute(node, "Status"))
cvrf_involvement_party_parse(node) ==
    EnumParse(DocPublisherTypeMap, xmlTextReaderGetAttribute(node, "Party"))
cvrf_doc_publisher_type_parse(node) ==
    EnumParse(DocPublisherTypeMap, xmlTextReaderGetAttribute(node, "Type"))
cvrf_relationship_type_parse(node) ==
    EnumParse(RelationshipTypeMap, xmlTextReaderGetAttribute(node, "RelationType"))
cvrf_branch_type_parse(node) ==
    EnumParse(BranchTypeMap, xmlTextReaderGetAttribute(node, "Type"))
cvrf_reference_type_parse(node) ==
    EnumParse(ReferenceTypeMap, xmlTextReaderGetAttribute(node, "Type"))
cvrf_note_type_parse(node) ==
    EnumParse(NoteTypeMap, xmlTextReaderGetAttribute(node, "Type"))
cvrf_doc_status_type_parse(node) ==
    EnumParse(DocStatusTypeMap, oscap_element_string_copy(node))

\* cvrf_remediation_parse
cvrf_remediation_parse(node) ==
    [type |-> cvrf_remediation_type_parse(node),
     date |-> xmlTextReaderGetAttribute(node, "Date"),
     description |-> LastText(node, "Description"),
     url |-> LastText(node, "URL"),
     entitlement |-> LastText(node, "Entitlement"),
     product_ids |-> Texts(node, "ProductID"),
     group_ids |-> Texts(node, "GroupID")]

\* cvrf_score_set_add_metric for the last child with the tag
ParsedMetric(node, tag) ==
    IF ChildrenNamed(node, tag) = <<>>
    THEN Nil
    ELSE [nan |-> FALSE, score |-> strtod(LastText(node, tag))]

\* cvrf_score_set_parse
cvrf_score_set_parse(node) ==
    [vector |-> LastText(node, "Vector"),
     impact |-> [base |-> ParsedMetric(node, "BaseScore"),
                 environmental |-> ParsedMetric(node, "EnvironmentalScore"),
                 temporal |-> ParsedMetric(node, "TemporalScore")],
     product_ids |-> Texts(node, "ProductID")]

\* cvrf_threat_parse
cvrf_threat_parse(node) ==
    [type |-> cvrf_threat_type_parse(node),
     date |-> xmlTextReaderGetAttribute(node, "Date"),
     description |-> LastText(node, "Description"),
     product_ids |-> Texts(node, "ProductID"),
     group_ids |-> Texts(node, "GroupID")]

\* cvrf_product_status_parse; the ids are put in a stringlist of the entry's
\* own when the model is assembled
cvrf_product_status_parse(node) ==
    [type |-> cvrf_product_status_type_parse(node),
     ids |-> SelectSeq(Texts(node, "ProductID"), LAMBDA id : id # NULL)]

\* cvrf_involvement_parse
cvrf_involvement_parse(node) ==
    [status |-> cvrf_involvement_status_type_parse(node),
     party |-> cvrf_involvement_party_parse(node),
     description |-> IF node.children = <<>>
                     THEN NULL
                     ELSE cvrf_parse_element(node.children[1], "Description")]

\* cvrf_vulnerability_cwe_parse
cvrf_vulnerability_cwe_parse(node) ==
    [cwe |-> oscap_element_string_copy(node),
     id |-> xmlTextReaderGetAttribute(node, "ID")]

\* cvrf_product_name_parse
cvrf_product_name_parse(node) ==
    [product_id |-> xmlTextReaderGetAttribute(node, "ProductID"),
     cpe |-> oscap_element_string_copy(node)]

\* cvrf_group_parse
cvrf_group_parse(node) ==
    [group_id |-> xmlTextReaderGetAttribute(node, "GroupID"),
     description |-> LastText(node, "Description"),
     product_ids |-> Texts(node, "ProductID")]

\* cvrf_relationship_parse
cvrf_relationship_parse(node) ==
    [relation_type |-> cvrf_relationship_type_parse(node),
     product_reference |-> xmlTextReaderGetAttribute(node, "ProductReference"),
     relates_to_ref |-> xmlTextReaderGetAttribute(node, "RelatesToProductReference"),
     product_name |-> IF node.children # <<>> /\ node.children[1].name = "FullProductName"
                      THEN cvrf_product_name_parse(node.children[1])
                      ELSE cvrf_product_name_new]

\* cvrf_branch_parse: a FullProductName as first child makes a Leaf, else
\* the leading Branch children are parsed
RECURSIVE cvrf_branch_parse(_)
cvrf_branch_parse(node) ==
    LET leaf == node.children # <<>> /\ node.children[1].name = "FullProductName"
        subs == ItemsWhile(node.children, "Branch")
    IN  [type |-> cvrf_branch_type_parse(node),
         branch_name |-> xmlTextReaderGetAttribute(node, "Name"),
         product_name |-> IF leaf
                          THEN cvrf_product_name_parse(node.children[1])
                          ELSE cvrf_product_name_new,
         subbranches |-> IF leaf
                         THEN <<>>
                         ELSE [k \in 1..Len(subs) |-> cvrf_branch_parse(subs[k])]]

\* cvrf_product_tree_parse
cvrf_product_tree_parse(node) ==
    IF xmlTextReaderIsEmptyElement(node)
    THEN Nil
    ELSE LET names == ChildrenNamed(node, "FullProductName")
             branches == ChildrenNamed(node, "Branch")
             relations == ChildrenNamed(node, "Relationship")
             groups == ContainerItems(node, "ProductGroups", "Group")
         IN  [product_names |-> [k \in 1..Len(names) |-> cvrf_product_name_parse(names[k])],
              branches |-> [k \in 1..Len(branches) |-> cvrf_branch_parse(branches[k])],
              relationships |->
                  [k \in 1..Len(relations) |-> cvrf_relationship_parse(relations[k])],
              product_groups |-> [k \in 1..Len(groups) |-> cvrf_group_parse(groups[k])]]

\* cvrf_acknowledgment_parse
cvrf_acknowledgment_parse(node) ==
    [names |-> Texts(node, "Name"),
     organizations |-> Texts(node, "Organization"),
     description |-> LastText(node, "Description"),
     urls |-> Texts(node, "URL")]

\* cvrf_reference_parse
cvrf_reference_parse(node) ==
    [type |-> cvrf_reference_type_parse(node),
     url |-> LastText(node, "URL"),
     description |-> LastText(node, "Description")]

\* cvrf_note_parse, for a Note that is not an empty element
cvrf_note_parse(node) ==
    [type |-> cvrf_note_type_parse(node),
     ordinal |-> cvrf_parse_ordinal(node),
     audience |-> xmlTextReaderGetAttribute(node, "Audience"),
     title |-> xmlTextReaderGetAttribute(node, "Title"),
     contents |-> oscap_element_string_copy(node)]

\* cvrf_parse_container on Notes: an empty Note is a parsing error that ends
\* the loop
RECURSIVE ParsedNotes(_)
ParsedNotes(nodes) ==
    IF nodes = <<>> \/ xmlTextReaderIsEmptyElement(Head(nodes))
    THEN <<>>
    ELSE <<cvrf_note_parse(Head(nodes))>> \o ParsedNotes(Tail(nodes))

\* cvrf_revision_parse
cvrf_revision_parse(node) ==
    [number |-> LastText(node, "Number"),
     date |-> LastText(node, "Date"),
     description |-> LastText(node, "Description")]

\* The Status elements cvrf_vulnerability_parse reads: those of every
\* ProductStatuses container and those that are children of the
\* Vulnerability itself.
StatusNodes(node) ==
    Flatten([k \in 1..Len(node.children) |->
                IF node.children[k].name = "ProductStatuses"
                THEN ItemsWhile(node.children[k].children, "Status")
                ELSE IF node.children[k].name = "Status"
                     THEN <<node.children[k]>>
                     ELSE <<>>])

\* cvrf_vulnerability_parse; product_statuses holds [type, ids] until the
\* model is assembled
cvrf_vulnerability_parse(node) ==
    LET ids == ChildrenNamed(node, "ID")
        cwes == ChildrenNamed(node, "CWE")
        involvements == ContainerItems(node, "Involvements", "Involvement")
        statuses == StatusNodes(node)
        threats == ContainerItems(node, "Threats", "Threat")
        score_sets == ContainerItems(node, "CVSSScoreSets", "ScoreSet")
        remediations == ContainerItems(node, "Remediations", "Remediation")
        references == ContainerItems(node, "References", "Reference")
        acknowledgments == ContainerItems(node, "Acknowledgments", "Acknowledgment")
    IN  [ordinal |-> cvrf_parse_ordinal(node),
         title |-> LastText(node, "Title"),
         system_id |-> LastText(node, "ID"),
         system_name |-> IF ids = <<>>
                         THEN NULL
                         ELSE xmlTextReaderGetAttribute(ids[Len(ids)], "SystemName"),
         discovery_date |-> LastText(node, "DiscoveryDate"),
         release_date |-> LastText(node, "ReleaseDate"),
         cve_id |-> LastText(node, "CVE"),
         cwes |-> [k \in 1..Len(cwes) |-> cvrf_vulnerability_cwe_parse(cwes[k])],
         notes |-> ParsedNotes(ContainerItems(node, "Notes", "Note")),
         involvements |->
             [k \in 1..Len(involvements) |-> cvrf_involvement_parse(involvements[k])],
         score_sets |-> [k \in 1..Len(score_sets) |-> cvrf_score_set_parse(score_sets[k])],
         product_statuses |->
             [k \in 1..Len(statuses) |-> cvrf_product_status_parse(statuses[k])],
         threats |-> [k \in 1..Len(threats) |-> cvrf_threat_parse(threats[k])],
         remediations |->
             [k \in 1..Len(remediations) |-> cvrf_remediation_parse(remediations[k])],
         references |-> [k \in 1..Len(references) |-> cvrf_reference_parse(references[k])],
         acknowledgments |->
             [k \in 1..Len(acknowledgments) |->
                 cvrf_acknowledgment_parse(acknowledgments[k])]]

\* cvrf_doc_tracking_parse
cvrf_doc_tracking_parse(node) ==
    IF xmlTextReaderIsEmptyElement(node)
    THEN Nil
    ELSE LET idents == ChildrenNamed(node, "Identification")
             ident == idents[Len(idents)]
             statuses == ChildrenNamed(node, "Status")
             revisions == ContainerItems(node, "RevisionHistory", "Revision")
             generators == ChildrenNamed(node, "Generator")
             generator == generators[Len(generators)].children
             engine == generator # <<>> /\ generator[1].name = "Engine"
             after_engine == IF engine THEN Tail(generator) ELSE generator
         IN  [tracking_id |-> IF idents = <<>> \/ ident.children = <<>>
                              THEN NULL
                              ELSE cvrf_parse_element(ident.children[1], "ID"),
              aliases |-> IF idents = <<>> THEN <<>> ELSE Texts(ident, "Alias"),
              status |-> IF statuses = <<>>
                         THEN UNKNOWN
                         ELSE cvrf_doc_status_type_parse(statuses[Len(statuses)]),
              version |-> LastText(node, "Version"),
              revision_history |->
                  [k \in 1..Len(revisions) |-> cvrf_revision_parse(revisions[k])],
              init_release_date |-> LastText(node, "InitialReleaseDate"),
              cur_release_date |-> LastText(node, "CurrentReleaseDate"),
              generator_engine |-> IF generators # <<>> /\ engine
                                   THEN oscap_element_string_copy(generator[1])
                                   ELSE NULL,
              generator_date |-> IF generators = <<>> \/ after_engine = <<>>
                                 THEN NULL
                                 ELSE cvrf_parse_element(after_engine[1], "Date")]

\* cvrf_doc_publisher_parse
cvrf_doc_publisher_parse(node) ==
    IF cvrf_doc_publisher_type_parse(node) = UNKNOWN /\ xmlTextReaderIsEmptyElement(node)
    THEN Nil
    ELSE LET contact == node.children # <<>> /\ node.children[1].name = "ContactDetails"
             rest == IF contact THEN Tail(node.children) ELSE node.children
         IN  [type |-> cvrf_doc_publisher_type_parse(node),
              vendor_id |-> xmlTextReaderGetAttribute(node, "VendorID"),
              contact_details |-> IF contact
                                  THEN oscap_element_string_copy(node.children[1])
                                  ELSE NULL,
              issuing_authority |-> IF rest = <<>>
                                    THEN NULL
                                    ELSE cvrf_parse_element(rest[1], "IssuingAuthority")]

\* the nodes before the first one with the tag
RECURSIVE NodesBefore(_, _)
NodesBefore(nodes, tag) ==
    IF nodes = <<>> \/ Head(nodes).name = tag
    THEN <<>>
    ELSE <<Head(nodes)>> \o NodesBefore(Tail(nodes), tag)

\* cvrf_document_parse: reads the children of the root up to the ProductTree
cvrf_document_parse(root) ==
    LET node == [root EXCEPT !.children = NodesBefore(root.children, "ProductTree")]
        publishers == ChildrenNamed(node, "DocumentPublisher")
        trackings == ChildrenNamed(node, "DocumentTracking")
        severities == ChildrenNamed(node, "AggregateSeverity")
        references == ContainerItems(node, "DocumentReferences", "Reference")
        acknowledgments == ContainerItems(node, "Acknowledgments", "Acknowledgment")
    IN  [doc_distribution |-> LastText(node, "DocumentDistribution"),
         aggregate_severity |-> LastText(node, "AggregateSeverity"),
         namespace |-> IF severities = <<>>
                       THEN NULL
                       ELSE xmlTextReaderGetAttribute(severities[Len(severities)],
                                                      "Namespace"),
         tracking |-> IF trackings = <<>>
                      THEN cvrf_doc_tracking_new
                      ELSE cvrf_doc_tracking_parse(trackings[Len(trackings)]),
         publisher |-> IF publishers = <<>>
                       THEN cvrf_doc_publisher_new
                       ELSE cvrf_doc_publisher_parse(publishers[Len(publishers)]),
         doc_notes |-> ParsedNotes(ContainerItems(node, "DocumentNotes", "Note")),
         doc_references |->
             [k \in 1..Len(references) |-> cvrf_reference_parse(references[k])],
         acknowledgments |->
             [k \in 1..Len(acknowledgments) |->
                 cvrf_acknowledgment_parse(acknowledgments[k])]]

\* oscap_stringlist_new for the ids of every parsed ProductStatus: the heap
\* and the vulnerabilities whose entries hold their list by address
ParsedHeap(vulns) ==
    NewHeap([i \in 1..Len(vulns) |-> vulns[i].product_statuses])

ParsedVulnerabilities(vulns) ==
    [i \in 1..Len(vulns) |->
        [vulns[i] EXCEPT !.product_statuses =
            NewVulnerabilities([v \in 1..Len(vulns) |->
                                   vulns[v].product_statuses])[i].product_statuses]]

\* cvrf_model_parse: the model and the heap of its stringlists.  The
\* Vulnerabilities are the elements that follow the ProductTree.
cvrf_model_parse(root) ==
    IF root.name # "cvrfdoc"
    THEN [model |-> Nil, heap |-> <<>>]
    ELSE LET title == root.children # <<>> /\ root.children[1].name = "DocumentTitle"
             after_title == IF title THEN Tail(root.children) ELSE root.children
             before_tree == NodesBefore(root.children, "ProductTree")
             from_tree == SubSeq(root.children, Len(before_tree) + 1, Len(root.children))
             vuln_nodes == IF from_tree = <<>>
                           THEN <<>>
                           ELSE ItemsWhile(Tail(from_tree), "Vulnerability")
             vulns == [k \in 1..Len(vuln_nodes) |-> cvrf_vulnerability_parse(vuln_nodes[k])]
         IN  [model |->
                 [doc_title |-> IF title
                                THEN oscap_element_string_copy(root.children[1])
                                ELSE NULL,
                  doc_type |-> IF after_title = <<>>
                               THEN NULL
                               ELSE cvrf_parse_element(after_title[1], "DocumentType"),
                  document |-> cvrf_document_parse(root),
                  tree |-> IF from_tree = <<>>
                           THEN cvrf_product_tree_new
                           ELSE cvrf_product_tree_parse(from_tree[1]),
                  vulnerabilities |-> ParsedVulnerabilities(vulns)],
              heap |-> ParsedHeap(vulns)]

(***************************************************************************)
(* The results assembler.                                                  *)
(***************************************************************************)
\* cvrf_product_vulnerability_fixed with the category test the code lacks
cvrf_product_vulnerability_fixed_FixedOnly(vuln, product, h) ==
    \E j \in 1..Len(vuln.product_statuses) :
        /\ vuln.product_statuses[j].type = "FIXED"
        /\ \E k \in 1..Len(h[vuln.product_statuses[j].product_ids].ids) :
              h[vuln.product_statuses[j].product_ids].ids[k] = product

\* cvrf_product_vulnerability_fixed: strcmp with every id of every entry
cvrf_product_vulnerability_fixed(vuln, product, h) ==
    \E j \in 1..Len(vuln.product_statuses) :
        \E k \in 1..Len(h[vuln.product_statuses[j].product_ids].ids) :
            h[vuln.product_statuses[j].product_ids].ids[k] = product

FIXED == <<"FIXED">>
VULNERABLE == <<"VULNERABLE">>

\* the Result node of one product id (the body of the inner loop)
ResultNode(vuln, product_id, h) ==
    LET r0 == cvrf_element_add_child("ProductID", product_id,
                                     xmlNewTextChild("Result", NULL))
    IN  IF cvrf_product_vulnerability_fixed(vuln, product_id, h)
        THEN cvrf_element_add_child("VulnerabilityStatus", FIXED, r0)
        ELSE cvrf_element_add_child("VulnerabilityStatus", VULNERABLE, r0)

\* the Results node of a vulnerability with no Result for an id after the first
VulnerabilityResults_FirstIdOnly(vuln, ids, h) ==
    LET results_node == xmlNewTextChild("Results", NULL)
    IN  xmlAddChild(cvrf_vulnerability_to_dom(vuln, h),
            [results_node EXCEPT !.children =
                [k \in 1..(IF Len(ids) = 0 THEN 0 ELSE 1) |-> ResultNode(vuln, ids[k], h)]])

\* the Vulnerability node with its Results node (the body of the outer loop)
VulnerabilityResults(vuln, ids, h) ==
    LET results_node == xmlNewTextChild("Results", NULL)
    IN  xmlAddChild(cvrf_vulnerability_to_dom(vuln, h),
            [results_node EXCEPT !.children =
                [k \in 1..Len(ids) |-> ResultNode(vuln, ids[k], h)]])

\* cvrf_model_results_to_dom
cvrf_model_results_to_dom(m, ids, h) ==
    [RootNode(m, h) EXCEPT !.children =
        @ \o [i \in 1..Len(m.vulnerabilities) |->
                 VulnerabilityResults(m.vulnerabilities[i], ids, h)]]

(***************************************************************************)
(* struct cvrf_rpm_attributes and the decomposition of a product id.       *)
(***************************************************************************)
\* cvrf_rpm_attributes_new; crashed tells that the call did not return
cvrf_rpm_attributes_new ==
    [crashed |-> FALSE, full_package_name |-> NULL, rpm_name |-> NULL, evr_format |-> NULL]

\* oscap_str_endswith(str, suffix)
oscap_str_endswith(str, suffix) ==
    /\ Len(suffix) <= Len(str)
    /\ SubSeq(str, Len(str) - Len(suffix) + 1, Len(str)) = suffix

\* strchr(str, c): the 1-based position of the first c in str, 0 when there is none
strchr(str, c) ==
    IF \E k \in 1..Len(str) : str[k] = c
    THEN CHOOSE k \in 1..Len(str) : str[k] = c /\ \A j \in 1..(k - 1) : str[j] # c
    ELSE 0

\* the loop of get_rpm_name_from_cvrf_product_id over the top-level Branches
RECURSIVE RpmNameFrom(_, _, _)
RpmNameFrom(branches, k, product_id) ==
    IF k > Len(branches)
    THEN NULL
    ELSE IF /\ branches[k].type = "PRODUCT_VERSION"
            /\ oscap_str_endswith(product_id, branches[k].product_name.product_id)
         THEN branches[k].product_name.cpe
         ELSE RpmNameFrom(branches, k + 1, product_id)

get_rpm_name_from_cvrf_product_id(tree, product_id) ==
    RpmNameFrom(tree.branches, 1, product_id)

\* char *package = strdup(strchr(product_id, ':')+1)
PackageOf(product_id) ==
    SubSeq(product_id, strchr(product_id, ":") + 1, Len(product_id))

\* the value of index after the while loop (0-based, as in the code)
ColonIndex(package) ==
    IF strchr(package, ":") = 0 THEN Len(package) ELSE strchr(package, ":") - 1

\* unsigned int is 32 bits wide; a value is written as its two 16-bit halves
Half == 65536

\* Mutant: the subtraction does not wrap, it stops at 0
UnsignedSub_Saturating(idx, k) ==
    [hi |-> 0, lo |-> IF idx >= k THEN idx - k ELSE 0]

\* index - k in unsigned int arithmetic (index-1 and index-2 of lines 323-324)
UnsignedSub(idx, k) ==
    [hi |-> ((idx - k) \div Half) % Half, lo |-> (idx - k) % Half]

\* the offset names a byte of the strdup'ed package, its terminator included
InBuffer(offset, package) == offset.hi = 0 /\ offset.lo <= Len(package)

\* The calls whose behaviour is undefined: a Product Version branch without
\* a product id handed to strlen, strdup(NULL) when no branch matches,
\* strchr(...) + 1 on an id without a colon, and &package[index-1] or
\* package[index-2] outside the buffer.
DecompositionUndefined(tree, product_id) ==
    \/ \E k \in 1..Len(tree.branches) :
          /\ tree.branches[k].type = "PRODUCT_VERSION"
          /\ tree.branches[k].product_name.product_id = NULL
    \/ get_rpm_name_from_cvrf_product_id(tree, product_id) = NULL
    \/ strchr(product_id, ":") = 0
    \/ ~InBuffer(UnsignedSub(ColonIndex(PackageOf(product_id)), 1), PackageOf(product_id))
    \/ ~InBuffer(UnsignedSub(ColonIndex(PackageOf(product_id)), 2), PackageOf(product_id))

\* What a call with undefined behaviour can give: no return at all, or
\* attributes holding whatever the stray accesses left.
UndefinedAttributes(product_id) ==
    {[cvrf_rpm_attributes_new EXCEPT !.crashed = TRUE]} \cup
    {[crashed |-> FALSE, full_package_name |-> <<>>, rpm_name |-> r, evr_format |-> e] :
        r \in {<<>>, product_id}, e \in {<<>>, product_id}}

\* char *evr = &package[index-1]; package[index-2] = NULL;
DefinedAttributes(tree, product_id) ==
    LET package == PackageOf(product_id)
        idx == ColonIndex(package)
    IN  [crashed |-> FALSE,
         full_package_name |-> get_rpm_name_from_cvrf_product_id(tree, product_id),
         rpm_name |-> SubSeq(package, 1, UnsignedSub(idx, 2).lo),
         evr_format |-> SubSeq(package, UnsignedSub(idx, 1).lo + 1, Len(package))]

\* parse_rpm_attributes_from_cvrf_product_id: the set of its possible results
parse_rpm_attributes_from_cvrf_product_id(tree, product_id) ==
    IF DecompositionUndefined(tree, product_id)
    THEN UndefinedAttributes(product_id)
    ELSE {DefinedAttributes(tree, product_id)}

(***************************************************************************)
(* The rule-definition registry (struct oval_definition_model) and the     *)
(* four records synthesized for one product id.  A record refers to        *)
(* another by its id.                                                      *)
(***************************************************************************)
oval_definition_model_new ==
    [objects |-> <<>>, states |-> <<>>, tests |-> <<>>, definitions |-> <<>>]

OvalNamespace == <<"oval:org.open-scap.unix">>

\* get_oval_id_string
get_oval_id_string(type, object_number) ==
    OvalNamespace \o <<":", type, ":">> \o IntToText(object_number)

\* get_new_oval_object_for_cvrf
get_new_oval_object_for_cvrf(attributes, objectNo) ==
    [id |-> get_oval_id_string("obj", objectNo),
     subtype |-> "OVAL_LINUX_RPM_INFO",
     contents |-> <<[entity_name |-> attributes.rpm_name]>>]

\* get_new_oval_state_for_cvrf
get_new_oval_state_for_cvrf(attributes, stateNo) ==
    [id |-> get_oval_id_string("ste", stateNo),
     comment |-> attributes.full_package_name,
     subtype |-> "OVAL_LINUX_RPM_INFO",
     operator |-> "OVAL_OPERATOR_AND",
     version |-> 1,
     contents |-> <<[entity_name |-> <<"name">>,
                     datatype |-> "OVAL_DATATYPE_STRING",
                     operation |-> "OVAL_OPERATION_PATTERN_MATCH",
                     value |-> attributes.rpm_name],
                    [entity_name |-> <<"evr">>,
                     datatype |-> "OVAL_DATATYPE_EVR_STRING",
                     operation |-> "OVAL_OPERATION_LESS_THAN",
                     value |-> attributes.evr_format]>>]

\* Mutant: the test takes the state and the object of the next index
get_new_rpminfo_test_for_cvrf_NextIndex(attributes, testNo) ==
    [id |-> get_oval_id_string("tst", testNo),
     subtype |-> "OVAL_LINUX_RPM_INFO",
     version |-> 1,
     check |-> "OVAL_CHECK_AT_LEAST_ONE",
     existence |-> "OVAL_AT_LEAST_ONE_EXISTS",
     states |-> <<get_oval_id_string("ste", testNo + 1)>>,
     object |-> get_oval_id_string("obj", testNo + 1)]

\* get_new_rpminfo_test_for_cvrf
get_new_rpminfo_test_for_cvrf(attributes, testNo) ==
    [id |-> get_oval_id_string("tst", testNo),
     subtype |-> "OVAL_LINUX_RPM_INFO",
     version |-> 1,
     check |-> "OVAL_CHECK_AT_LEAST_ONE",
     existence |-> "OVAL_AT_LEAST_ONE_EXISTS",
     states |-> <<get_new_oval_state_for_cvrf(attributes, testNo).id>>,
     object |-> get_new_oval_object_for_cvrf(attributes, testNo).id]

\* the definition record of create_oval_definition_for_cvrf_rpm_attributes
DefinitionRecord(attributes, idx) ==
    [id |-> get_oval_id_string("def", idx),
     version |-> 1,
     title |-> <<"CVRF RPM Vulnerability Test">>,
     criteria |->
        [type |-> "OVAL_NODETYPE_CRITERIA",
         subnodes |-> <<[type |-> "OVAL_NODETYPE_CRITERION",
                         test |-> get_new_rpminfo_test_for_cvrf(attributes, idx).id,
                         comment |-> <<"Check for vulnerability of package ">>
                                        \o attributes.rpm_name]>>]]

\* oval_definition_model_get_new_definition, oval_test_new,
\* oval_definition_model_get_new_state, oval_definition_model_get_new_object:
\* the record with the given id joins the registry's records of its kind
oval_definition_model_add(dm, kind, record) ==
    [dm EXCEPT ![kind] = Append(@, record)]

\* Mutant: every identifier of the pass gets index 1
create_oval_definition_for_cvrf_rpm_attributes_IndexOne(dm, attributes, idx) ==
    LET with_definition ==
            oval_definition_model_add(dm, "definitions", DefinitionRecord(attributes, 1))
        with_test ==
            oval_definition_model_add(with_definition, "tests",
                                      get_new_rpminfo_test_for_cvrf(attributes, 1))
        with_state ==
            oval_definition_model_add(with_test, "states",
                                      get_new_oval_state_for_cvrf(attributes, 1))
    IN  oval_definition_model_add(with_state, "objects",
                                  get_new_oval_object_for_cvrf(attributes, 1))

\* create_oval_definition_for_cvrf_rpm_attributes: the definition is made
\* first, then its test, then the test's state and the test's object
create_oval_definition_for_cvrf_rpm_attributes(dm, attributes, idx) ==
    LET with_definition ==
            oval_definition_model_add(dm, "definitions", DefinitionRecord(attributes, idx))
        with_test ==
            oval_definition_model_add(with_definition, "tests",
                                      get_new_rpminfo_test_for_cvrf(attributes, idx))
        with_state ==
            oval_definition_model_add(with_test, "states",
                                      get_new_oval_state_for_cvrf(attributes, idx))
    IN  oval_definition_model_add(with_state, "objects",
                                  get_new_oval_object_for_cvrf(attributes, idx))

(***************************************************************************)
(* Cloning.  oscap_strdup copies a text (NULL stays NULL), so a cloned     *)
(* text field is the field's value; every clone routine assigns the fields *)
(* its code assigns.  A field of the malloc'ed clone that the code never   *)
(* assigns holds whatever the memory held.                                 *)
(***************************************************************************)
\* oscap_list_clone: the clones of the items, in list order
oscap_list_clone(list, clone_func(_)) ==
    [k \in 1..Len(list) |-> clone_func(list[k])]

\* oscap_stringlist_clone
oscap_stringlist_clone(list) == [k \in 1..Len(list) |-> list[k]]

\* what a field that was never assigned can hold
Uninitialized == {NULL, <<"?">>}

cvrf_remediation_clone(remed) ==
    [type |-> remed.type, date |-> remed.date, description |-> remed.description,
     url |-> remed.url, entitlement |-> remed.entitlement,
     product_ids |-> oscap_stringlist_clone(remed.product_ids),
     group_ids |-> oscap_stringlist_clone(remed.group_ids)]

\* cvss_impact_clone
cvss_impact_clone(impact) ==
    [base |-> impact.base, environmental |-> impact.environmental,
     temporal |-> impact.temporal]

cvrf_score_set_clone(score_set) ==
    [vector |-> score_set.vector, impact |-> cvss_impact_clone(score_set.impact),
     product_ids |-> oscap_stringlist_clone(score_set.product_ids)]

cvrf_threat_clone(threat) ==
    [type |-> threat.type, date |-> threat.date, description |-> threat.description,
     product_ids |-> oscap_stringlist_clone(threat.product_ids),
     group_ids |-> oscap_stringlist_clone(threat.group_ids)]

\* cvrf_product_status_clone: the clone's id list is a new stringlist, at
\* address a of the heap
cvrf_product_status_clone(stat, a) == [type |-> stat.type, product_ids |-> a]

cvrf_involvement_clone(involve) ==
    [status |-> involve.status, party |-> involve.party,
     description |-> involve.description]

cvrf_vulnerability_cwe_clone(vuln_cwe) == [cwe |-> vuln_cwe.cwe, id |-> vuln_cwe.id]

cvrf_group_clone(group) ==
    [group_id |-> group.group_id, description |-> group.description,
     product_ids |-> oscap_stringlist_clone(group.product_ids)]

cvrf_acknowledgment_clone(ack) ==
    [names |-> oscap_stringlist_clone(ack.names),
     organizations |-> oscap_stringlist_clone(ack.organizations),
     description |-> ack.description,
     urls |-> oscap_stringlist_clone(ack.urls)]

cvrf_note_clone(note) ==
    [type |-> note.type, ordinal |-> note.ordinal, audience |-> note.audience,
     title |-> note.title, contents |-> note.contents]

cvrf_revision_clone(revision) ==
    [number |-> revision.number, date |-> revision.date,
     description |-> revision.description]

cvrf_doc_tracking_clone(tracking) ==
    [tracking_id |-> tracking.tracking_id,
     aliases |-> oscap_stringlist_clone(tracking.aliases),
     status |-> tracking.status,
     version |-> tracking.version,
     revision_history |-> oscap_list_clone(tracking.revision_history, cvrf_revision_clone),
     init_release_date |-> tracking.init_release_date,
     cur_release_date |-> tracking.cur_release_date,
     generator_engine |-> tracking.generator_engine,
     generator_date |-> tracking.generator_date]

cvrf_doc_publisher_clone(publisher) ==
    [type |-> publisher.type, vendor_id |-> publisher.vendor_id,
     contact_details |-> publisher.contact_details,
     issuing_authority |-> publisher.issuing_authority]

cvrf_reference_clone(ref) ==
    [type |-> ref.type, url |-> ref.url, description |-> ref.description]

cvrf_document_clone(doc) ==
    [doc_distribution |-> doc.doc_distribution,
     aggregate_severity |-> doc.aggregate_severity,
     namespace |-> doc.namespace,
     tracking |-> cvrf_doc_tracking_clone(doc.tracking),
     publisher |-> cvrf_doc_publisher_clone(doc.publisher),
     doc_notes |-> oscap_list_clone(doc.doc_notes, cvrf_note_clone),
     doc_references |-> oscap_list_clone(doc.doc_references, cvrf_reference_clone),
     acknowledgments |-> oscap_list_clone(doc.acknowledgments, cvrf_acknowledgment_clone)]

RECURSIVE cvrf_branch_clone(_)
cvrf_branch_clone(branch) ==
    [branch_name |-> branch.branch_name,
     type |-> branch.type,
     product_name |-> cvrf_product_name_clone(branch.product_name),
     subbranches |-> [k \in 1..Len(branch.subbranches) |->
                         cvrf_branch_clone(branch.subbranches[k])]]

cvrf_product_tree_clone(tree) ==
    [product_names |-> oscap_list_clone(tree.product_names, cvrf_product_name_clone),
     branches |-> oscap_list_clone(tree.branches, cvrf_branch_clone),
     relationships |-> oscap_list_clone(tree.relationships, cvrf_relationship_clone),
     product_groups |-> oscap_list_clone(tree.product_groups, cvrf_group_clone)]

\* cvrf_vulnerability_clone.  system_id is assigned twice, the second time
\* from system_name; system_name and cve_id are never assigned, junk is
\* what they hold.  The cloned ProductStatus entries get the stringlists at
\* the addresses first + 1, first + 2, ...
cvrf_vulnerability_clone(vuln, junk, first) ==
    [ordinal |-> vuln.ordinal,
     title |-> vuln.title,
     system_id |-> vuln.system_name,
     system_name |-> junk.system_name,
     discovery_date |-> vuln.discovery_date,
     release_date |-> vuln.release_date,
     cve_id |-> junk.cve_id,
     cwes |-> oscap_list_clone(vuln.cwes, cvrf_vulnerability_cwe_clone),
     notes |-> oscap_list_clone(vuln.notes, cvrf_note_clone),
     involvements |-> oscap_list_clone(vuln.involvements, cvrf_involvement_clone),
     product_statuses |->
        [j \in 1..Len(vuln.product_statuses) |->
            cvrf_product_status_clone(vuln.product_statuses[j], first + j)],
     threats |-> oscap_list_clone(vuln.threats, cvrf_threat_clone),
     score_sets |-> oscap_list_clone(vuln.score_sets, cvrf_score_set_clone),
     remediations |-> oscap_list_clone(vuln.remediations, cvrf_remediation_clone),
     references |-> oscap_list_clone(vuln.references, cvrf_reference_clone),
     acknowledgments |-> oscap_list_clone(vuln.acknowledgments, cvrf_acknowledgment_clone)]

\* the stringlists that cloning the ProductStatus entries of vulns allocates
ClonedLists(vulns, h) ==
    Flatten([i \in 1..Len(vulns) |->
                [j \in 1..Len(vulns[i].product_statuses) |->
                    [live |-> TRUE,
                     ids |-> oscap_stringlist_clone(
                                 h[vulns[i].product_statuses[j].product_ids].ids)]]])

\* how many ProductStatus entries the vulnerabilities before the i-th hold
StatusesBefore(vulns, i) ==
    Len(Flatten([k \in 1..(i - 1) |-> vulns[k].product_statuses]))

\* Where the strings are kept.  A string field points to a cell; the cells
\* of a model as it was parsed are its own.  Of a Vulnerability: the title
\* and the text and id of each CWE.
Cell(owner, path) == <<owner>> \o path

PointerTo(string, owner, path) == IF string = NULL THEN NULL ELSE Cell(owner, path)

ParsedPointers(vulns) ==
    [i \in 1..Len(vulns) |->
        [title |-> PointerTo(vulns[i].title, "original", <<i, 0, "title">>),
         cwes |-> [n \in 1..Len(vulns[i].cwes) |->
                     [cwe |-> PointerTo(vulns[i].cwes[n].cwe, "original", <<i, n, "cwe">>),
                      id |-> PointerTo(vulns[i].cwes[n].id, "original", <<i, n, "id">>)]]]]

\* oscap_strdup: NULL for NULL, else a new cell for the copy
oscap_strdup(pointer) ==
    IF pointer = NULL THEN NULL ELSE Cell("clone", Tail(pointer))

\* clone->cwe = vuln_cwe->cwe; clone->id = vuln_cwe->id
CweClonePointers(pointers) == [cwe |-> pointers.cwe, id |-> pointers.id]

\* clone->title = oscap_strdup(vuln->title); clone->cwes = oscap_list_clone(..)
VulnerabilityClonePointers(pointers) ==
    [title |-> oscap_strdup(pointers.title),
     cwes |-> oscap_list_clone(pointers.cwes, CweClonePointers)]

\* the pointers of the original and of its clone
ModelClonePointers(vulns) ==
    [original |-> ParsedPointers(vulns),
     clone |-> oscap_list_clone(ParsedPointers(vulns), VulnerabilityClonePointers)]

\* cvrf_model_clone: the clone and the heap with the clone's stringlists;
\* junk[i] is what the unassigned fields of the i-th cloned Vulnerability hold
cvrf_model_clone(m, h, junk) ==
    [model |->
        [doc_title |-> m.doc_title,
         doc_type |-> m.doc_type,
         document |-> cvrf_document_clone(m.document),
         tree |-> cvrf_product_tree_clone(m.tree),
         vulnerabilities |->
            [i \in 1..Len(m.vulnerabilities) |->
                cvrf_vulnerability_clone(m.vulnerabilities[i], junk[i],
                    Len(h) + StatusesBefore(m.vulnerabilities, i))]],
     heap |-> h \o ClonedLists(m.vulnerabilities, h)]

(***************************************************************************)
(* find_all_cvrf_product_ids_from_cpe: the session's model is filtered in  *)
(* place; on success the embedded ProductName id of every Relationship     *)
(* left is appended to session->product_ids.                               *)
(***************************************************************************)
\* Mutant: the failure of the filter is not reported
find_all_cvrf_product_ids_from_cpe_AlwaysZero(m, c, h, ids) ==
    LET r == cvrf_model_filter_by_cpe(m, c, h)
        relationships == r.model.tree.relationships
    IN  [ret |-> 0, model |-> r.model, heap |-> r.heap,
         product_ids |-> ids \o [i \in 1..Len(relationships) |->
                                    relationships[i].product_name.product_id]]

\* Mutant: the ids of the model are put before those of the list
find_all_cvrf_product_ids_from_cpe_Prepends(m, c, h, ids) ==
    LET r == cvrf_model_filter_by_cpe(m, c, h)
        relationships == r.model.tree.relationships
    IN  IF r.ret = -1
        THEN [ret |-> -1, model |-> r.model, heap |-> r.heap, product_ids |-> ids]
        ELSE [ret |-> 0, model |-> r.model, heap |-> r.heap,
              product_ids |-> [i \in 1..Len(relationships) |->
                                  relationships[i].product_name.product_id] \o ids]

find_all_cvrf_product_ids_from_cpe(m, c, h, ids) ==
    LET r == cvrf_model_filter_by_cpe(m, c, h)
        relationships == r.model.tree.relationships
    IN  IF r.ret = -1
        THEN [ret |-> -1, model |-> r.model, heap |-> r.heap, product_ids |-> ids]
        ELSE [ret |-> 0, model |-> r.model, heap |-> r.heap,
              product_ids |-> ids \o [i \in 1..Len(relationships) |->
                                         relationships[i].product_name.product_id]]

(***************************************************************************)
(* cvrf_session_construct_definition_model as one call: the set of its     *)
(* outcomes.  A product id whose decomposition is undefined makes the pass *)
(* crash or go on with whatever the decomposition left.                    *)
(***************************************************************************)
RECURSIVE ConstructFrom(_, _, _, _)
ConstructFrom(tree, ids, i, dm) ==
    IF i > Len(ids)
    THEN {[crashed |-> FALSE, def_model |-> dm]}
    ELSE UNION {IF attributes.crashed
                THEN {[crashed |-> TRUE, def_model |-> dm]}
                ELSE ConstructFrom(tree, ids, i + 1,
                         create_oval_definition_for_cvrf_rpm_attributes(dm, attributes, i)) :
                attributes \in parse_rpm_attributes_from_cvrf_product_id(tree, ids[i])}

cvrf_session_construct_definition_model(tree, ids, dm) == ConstructFrom(tree, ids, 1, dm)

(***************************************************************************)
(* oscap_source_save_as writes the document to the export file; whether    *)
(* the write succeeds is up to the file system.                            *)
(***************************************************************************)
oscap_source_save_as(doc) == {[ret |-> r, saved |-> doc] : r \in {0, -1}}

(***************************************************************************)
(* cvrf_export_results: a new session around the imported model; the set   *)
(* of outcomes of the call.                                                *)
(***************************************************************************)
\* what a call leaves behind: the session as find_all_cvrf_product_ids_from_cpe
\* left it, the definition model, the document built and the file written
ExportOutcome(found, c, r, node) ==
    [crashed |-> c.crashed, ret |-> r, model |-> found.model,
     heap |-> found.heap, product_ids |-> found.product_ids,
     def_model |-> c.def_model, dom |-> node, saved |-> node]

\* lines 246-259: the results document is made the root of a new document and
\* saved; the return value is that of oscap_source_save_as
ExportSaved(found, c, model_node) ==
    {ExportOutcome(found, c, s.ret, s.saved) : s \in oscap_source_save_as(model_node)}

\* lines 242-259, found being what find_all_cvrf_product_ids_from_cpe returned
ExportFound(found) ==
    IF found.ret # 0
    THEN {ExportOutcome(found, [crashed |-> FALSE, def_model |-> oval_definition_model_new],
                        -1, Nil)}
    ELSE UNION {
           IF c.crashed
           THEN {ExportOutcome(found, c, 0, Nil)}
           ELSE ExportSaved(found, c,
                    cvrf_model_results_to_dom(found.model, found.product_ids, found.heap)) :
           c \in cvrf_session_construct_definition_model(
                     found.model.tree, found.product_ids, oval_definition_model_new)}

cvrf_export_results(m, h, os_name) ==
    ExportFound(find_all_cvrf_product_ids_from_cpe(m, os_name, h, <<>>))

(***************************************************************************)
(* cvrf_index_get_results_source: one session for all Models of the Index. *)
(* Each turn of the loop makes the next Model the session's model, filters *)
(* it (the result of the filter is not looked at), synthesizes the rules   *)
(* and appends the Model's results document to the Index node.  The set    *)
(* of outcomes of the loop from the i-th Model on.                         *)
(***************************************************************************)
RECURSIVE IndexLoop(_, _, _, _, _, _, _, _)
\* the rest of one turn, once find_all_cvrf_product_ids_from_cpe has returned
IndexTurn(models, i, os_name, found, filtered, dm, index_node) ==
    UNION {
      IF c.crashed
      THEN {[crashed |-> TRUE, models |-> filtered, model |-> found.model,
             heap |-> found.heap, product_ids |-> found.product_ids,
             def_model |-> c.def_model, dom |-> index_node, it |-> i]}
      ELSE IndexLoop(filtered, i + 1, found.model, os_name, found.heap,
                     found.product_ids, c.def_model,
                     xmlAddChild(index_node,
                         cvrf_model_results_to_dom(found.model, found.product_ids,
                                                   found.heap))) :
      c \in cvrf_session_construct_definition_model(
                found.model.tree, found.product_ids, dm)}

\* session->model is the model of the index itself, so the index holds the
\* filtered model from here on
IndexFiltered(models, i, os_name, found, dm, index_node) ==
    IndexTurn(models, i, os_name, found, [models EXCEPT ![i] = found.model], dm,
              index_node)

IndexLoop(models, i, session_model, os_name, h, ids, dm, index_node) ==
    IF i > Len(models)
    THEN {[crashed |-> FALSE, models |-> models, model |-> session_model, heap |-> h,
           product_ids |-> ids, def_model |-> dm, dom |-> index_node, it |-> i - 1]}
    ELSE IndexFiltered(models, i, os_name,
                       find_all_cvrf_product_ids_from_cpe(models[i], os_name, h, ids),
                       dm, index_node)

cvrf_index_get_results_source(models, h, os_name) ==
    IndexLoop(models, 1, Nil, os_name, h, <<>>, oval_definition_model_new,
              xmlNewNode("Index"))

(***************************************************************************)
(* The reader.  A document is the sequence of the nodes xmlTextReaderRead  *)
(* visits: the opening tag of an element (empty: written <a/>, it has no   *)
(* closing tag), its text, its children, its closing tag.  The cursor is a *)
(* position in the sequence; Len + 1 is the end of the input, where the    *)
(* reader has no node.  Every routine below is given the document and the  *)
(* cursor and yields the cursor it leaves; Hang says that the routine      *)
(* never returns.                                                          *)
(***************************************************************************)
Hang == -1

AtEnd(rd, p) == p > Len(rd)

\* xmlTextReaderRead: one node forward; at the end of the input it stays
xmlTextReaderRead(rd, p) ==
    IF p = Hang THEN Hang ELSE IF AtEnd(rd, p) THEN p ELSE p + 1

xmlTextReaderNodeType(rd, p) == IF AtEnd(rd, p) THEN "NONE" ELSE rd[p].type

\* a NULL name is the empty string: it equals no tag
xmlTextReaderConstLocalName(rd, p) == IF AtEnd(rd, p) THEN "" ELSE rd[p].name

xmlTextReaderIsEmptyElement_cursor(rd, p) ==
    /\ ~AtEnd(rd, p)
    /\ rd[p].type = "ELEMENT"
    /\ rd[p].empty

oscap_element_depth(rd, p) == IF AtEnd(rd, p) THEN -1 ELSE rd[p].depth

xmlTextReaderNextNode(rd, p) == xmlTextReaderRead(rd, p)

\* xmlTextReaderNextElement: read until an opening tag or the end of input
RECURSIVE xmlTextReaderNextElement(_, _)
xmlTextReaderNextElement(rd, p) ==
    LET q == xmlTextReaderRead(rd, p)
    IN  IF q = Hang \/ AtEnd(rd, q) \/ rd[q].type = "ELEMENT"
        THEN q
        ELSE xmlTextReaderNextElement(rd, q)

\* xmlTextReaderNextElementWE: the same, and it also stops at the closing
\* tag named end_tag
RECURSIVE xmlTextReaderNextElementWE(_, _, _)
xmlTextReaderNextElementWE(rd, p, end_tag) ==
    LET q == xmlTextReaderRead(rd, p)
    IN  IF q = Hang \/ AtEnd(rd, q) \/ rd[q].type = "ELEMENT"
           \/ (rd[q].type = "END_ELEMENT" /\ rd[q].name = end_tag)
        THEN q
        ELSE xmlTextReaderNextElementWE(rd, q, end_tag)

\* oscap_element_string_copy: on the opening tag of a non-empty element it
\* reads on to the node that holds the text
oscap_element_string_copy_cursor(rd, p) ==
    IF p = Hang THEN Hang
    ELSE IF xmlTextReaderIsEmptyElement_cursor(rd, p) THEN p
    ELSE IF xmlTextReaderNodeType(rd, p) = "ELEMENT" THEN xmlTextReaderRead(rd, p)
    ELSE p

\* oscap_element_string_get: on an opening tag it reads on, empty or not
oscap_element_string_get_cursor(rd, p) ==
    IF p = Hang THEN Hang
    ELSE IF xmlTextReaderNodeType(rd, p) = "ELEMENT" THEN xmlTextReaderRead(rd, p)
    ELSE p

\* cvrf_parse_element, as far as the cursor goes
cvrf_parse_element_cursor(rd, p, tagname, next_elm) ==
    IF p = Hang THEN Hang
    ELSE IF xmlTextReaderConstLocalName(rd, p) = tagname
    THEN LET q == oscap_element_string_copy_cursor(rd, p)
         IN  IF next_elm THEN xmlTextReaderNextElement(rd, q) ELSE q
    ELSE p

(***************************************************************************)
(* The loop most entity routines share:                                    *)
(*   while (name != tag) {                                                 *)
(*       if (type != ELEMENT) { NextNode; continue; }                      *)
(*       a field named in copy_tags: oscap_element_string_copy;            *)
(*       a field named in get_tags:  oscap_element_string_get;             *)
(*       NextNode; }                                                       *)
(* At the end of the input no name equals tag and no type is ELEMENT, so   *)
(* the loop goes on for ever.                                              *)
(***************************************************************************)
RECURSIVE ScanFields(_, _, _, _, _)
ScanFields(rd, p, tag, copy_tags, get_tags) ==
    IF p = Hang \/ AtEnd(rd, p) THEN Hang
    ELSE IF rd[p].name = tag THEN p
    ELSE IF rd[p].type # "ELEMENT"
    THEN ScanFields(rd, xmlTextReaderNextNode(rd, p), tag, copy_tags, get_tags)
    ELSE LET q == IF rd[p].name \in copy_tags THEN oscap_element_string_copy_cursor(rd, p)
                  ELSE IF rd[p].name \in get_tags THEN oscap_element_string_get_cursor(rd, p)
                  ELSE p
         IN  ScanFields(rd, xmlTextReaderNextNode(rd, q), tag, copy_tags, get_tags)

\* cvrf_remediation_parse
cvrf_remediation_parse_cursor(rd, p) ==
    xmlTextReaderNextNode(rd,
        ScanFields(rd, xmlTextReaderNextElementWE(rd, p, "Remediation"), "Remediation",
                   {"Description", "URL", "Entitlement"}, {"ProductID", "GroupID"}))

\* cvrf_score_set_parse
cvrf_score_set_parse_cursor(rd, p) ==
    xmlTextReaderNextNode(rd,
        ScanFields(rd, xmlTextReaderNextElementWE(rd, p, "ScoreSet"), "ScoreSet",
                   {"Vector", "ProductID", "BaseScore", "EnvironmentalScore",
                    "TemporalScore"}, {}))

\* cvrf_threat_parse
cvrf_threat_parse_cursor(rd, p) ==
    xmlTextReaderNextNode(rd,
        ScanFields(rd, xmlTextReaderNextElementWE(rd, p, "Threat"), "Threat",
                   {"Description"}, {"ProductID", "GroupID"}))

\* cvrf_product_status_parse: no NextNode after the loop
cvrf_product_status_parse_cursor(rd, p) ==
    ScanFields(rd, xmlTextReaderNextElementWE(rd, p, "Status"), "Status",
               {}, {"ProductID"})

\* cvrf_involvement_parse
cvrf_involvement_parse_cursor(rd, p) ==
    LET q == xmlTextReaderNextNode(rd, p)
    IN  IF q = Hang THEN Hang
        ELSE IF oscap_element_depth(rd, q) = 4
        THEN LET r == xmlTextReaderNextNode(rd, q)
             IN  IF xmlTextReaderConstLocalName(rd, r) = "Description"
                 THEN xmlTextReaderNextNode(rd, oscap_element_string_copy_cursor(rd, r))
                 ELSE r
        ELSE q

\* cvrf_vulnerability_cwe_parse
cvrf_vulnerability_cwe_parse_cursor(rd, p) ==
    xmlTextReaderNextNode(rd, oscap_element_string_copy_cursor(rd, p))

\* cvrf_product_name_parse
cvrf_product_name_parse_cursor(rd, p) ==
    xmlTextReaderNextNode(rd, oscap_element_string_copy_cursor(rd, p))

\* cvrf_group_parse
cvrf_group_parse_cursor(rd, p) ==
    xmlTextReaderNextNode(rd,
        ScanFields(rd, xmlTextReaderNextElementWE(rd, p, "Group"), "Group",
                   {"Description"}, {"ProductID"}))

\* cvrf_relationship_parse
cvrf_relationship_parse_cursor(rd, p) ==
    LET q == xmlTextReaderNextElementWE(rd, p, "Relationship")
    IN  IF q = Hang THEN Hang
        ELSE IF xmlTextReaderConstLocalName(rd, q) = "FullProductName"
        THEN xmlTextReaderNextNode(rd, cvrf_product_name_parse_cursor(rd, q))
        ELSE xmlTextReaderNextNode(rd, q)

\* cvrf_acknowledgment_parse
cvrf_acknowledgment_parse_cursor(rd, p) ==
    xmlTextReaderNextNode(rd,
        ScanFields(rd, xmlTextReaderNextElementWE(rd, p, "Acknowledgment"),
                   "Acknowledgment", {"Description"}, {"Name", "Organization", "URL"}))

\* cvrf_reference_parse
cvrf_reference_parse_cursor(rd, p) ==
    xmlTextReaderNextNode(rd,
        ScanFields(rd, xmlTextReaderNextElementWE(rd, p, "Reference"), "Reference",
                   {"URL", "Description"}, {}))

\* cvrf_note_parse: an empty Note is an error, the cursor stays
cvrf_note_parse_cursor(rd, p) ==
    IF xmlTextReaderIsEmptyElement_cursor(rd, p)
    THEN p
    ELSE xmlTextReaderNextNode(rd,
             xmlTextReaderNextNode(rd,
                 oscap_element_string_copy_cursor(rd, xmlTextReaderNextNode(rd, p))))

\* cvrf_revision_parse
cvrf_revision_parse_cursor(rd, p) ==
    xmlTextReaderNextNode(rd,
        ScanFields(rd, xmlTextReaderNextElementWE(rd, p, "Revision"), "Revision",
                   {"Number", "Date", "Description"}, {}))

\* cvrf_doc_publisher_parse: an empty element of unknown Type is an error
cvrf_doc_publisher_parse_cursor(rd, p) ==
    IF /\ cvrf_doc_publisher_type_parse(rd[p]) = UNKNOWN
       /\ xmlTextReaderIsEmptyElement_cursor(rd, p)
    THEN p
    ELSE LET q == xmlTextReaderNextElementWE(rd, p, "DocumentPublisher")
             r == cvrf_parse_element_cursor(rd, q, "ContactDetails", TRUE)
             s == cvrf_parse_element_cursor(rd, r, "IssuingAuthority", FALSE)
         IN  xmlTextReaderNextNode(rd, s)

(***************************************************************************)
(* cvrf_parse_container and the routines that call it.  The item tag is    *)
(* found from the tag under the cursor, which is the tag of the container  *)
(* or, for Vulnerability and CWE, of the first item.                       *)
(***************************************************************************)
\* cvrf_item_type_get_text(cvrf_item_type_from_text(name))
ItemTagOf(name) ==
    CASE name = "RevisionHistory" -> "Revision"
      [] name \in {"Notes", "DocumentNotes"} -> "Note"
      [] name \in {"References", "DocumentReferences"} -> "Reference"
      [] name = "Acknowledgments" -> "Acknowledgment"
      [] name = "ProductGroups" -> "Group"
      [] name = "Involvements" -> "Involvement"
      [] name = "ProductStatuses" -> "Status"
      [] name = "Threats" -> "Threat"
      [] name = "CVSSScoreSets" -> "ScoreSet"
      [] name = "Remediations" -> "Remediation"
      [] name = "Vulnerability" -> "Vulnerability"
      [] name = "CWE" -> "CWE"
      [] OTHER -> ""

RECURSIVE cvrf_vulnerability_parse_cursor(_, _)
RECURSIVE ContainerLoop(_, _, _)
RECURSIVE VulnerabilityFields(_, _)

\* the item routine cvrf_parse_container picks for an item tag
ItemParse(rd, p, tag) ==
    CASE tag = "Revision" -> cvrf_revision_parse_cursor(rd, p)
      [] tag = "Note" -> cvrf_note_parse_cursor(rd, p)
      [] tag = "Reference" -> cvrf_reference_parse_cursor(rd, p)
      [] tag = "Acknowledgment" -> cvrf_acknowledgment_parse_cursor(rd, p)
      [] tag = "Group" -> cvrf_group_parse_cursor(rd, p)
      [] tag = "Involvement" -> cvrf_involvement_parse_cursor(rd, p)
      [] tag = "Status" -> cvrf_product_status_parse_cursor(rd, p)
      [] tag = "Remediation" -> cvrf_remediation_parse_cursor(rd, p)
      [] tag = "Threat" -> cvrf_threat_parse_cursor(rd, p)
      [] tag = "ScoreSet" -> cvrf_score_set_parse_cursor(rd, p)
      [] tag = "Vulnerability" -> cvrf_vulnerability_parse_cursor(rd, p)
      [] tag = "CWE" -> cvrf_vulnerability_cwe_parse_cursor(rd, p)

\* the while loop of cvrf_parse_container: an item, then NextNode; a Note
\* routine that returns NULL (empty Note) is the error that breaks the loop
ContainerLoop(rd, p, tag) ==
    IF p = Hang THEN Hang
    ELSE IF tag = "" \/ xmlTextReaderConstLocalName(rd, p) # tag THEN p
    ELSE LET q == ItemParse(rd, p, tag)
             error == tag = "Note" /\ xmlTextReaderIsEmptyElement_cursor(rd, p)
         IN  IF error
             THEN xmlTextReaderNextNode(rd, q)
             ELSE ContainerLoop(rd, xmlTextReaderNextNode(rd, q), tag)

cvrf_parse_container_cursor(rd, p) ==
    LET tag == ItemTagOf(xmlTextReaderConstLocalName(rd, p))
    IN  ContainerLoop(rd,
                       IF tag \notin {"Vulnerability", "CWE"}
                       THEN xmlTextReaderNextElement(rd, p)
                       ELSE p,
                       tag)

\* the while loop of cvrf_vulnerability_parse
VulnerabilityFields(rd, p) ==
    IF p = Hang \/ AtEnd(rd, p) THEN Hang
    ELSE IF rd[p].name = "Vulnerability" THEN p
    ELSE IF rd[p].type # "ELEMENT" THEN VulnerabilityFields(rd, xmlTextReaderNextNode(rd, p))
    ELSE LET q == IF rd[p].name \in {"Title", "ID", "DiscoveryDate", "ReleaseDate", "CVE"}
                  THEN oscap_element_string_copy_cursor(rd, p)
                  ELSE IF rd[p].name \in {"Notes", "CWE", "Involvements",
                                          "ProductStatuses", "Threats", "CVSSScoreSets",
                                          "Remediations", "References", "Acknowledgments"}
                  THEN cvrf_parse_container_cursor(rd, p)
                  ELSE IF rd[p].name = "Status"
                  THEN cvrf_product_status_parse_cursor(rd, p)
                  ELSE p
         IN  VulnerabilityFields(rd, xmlTextReaderNextNode(rd, q))

cvrf_vulnerability_parse_cursor(rd, p) ==
    xmlTextReaderNextNode(rd,
        VulnerabilityFields(rd, xmlTextReaderNextElementWE(rd, p, "Vulnerability")))

(***************************************************************************)
(* cvrf_branch_parse: the shape is taken from the first element after the  *)
(* opening tag.                                                            *)
(***************************************************************************)
RECURSIVE cvrf_branch_parse_cursor(_, _)
RECURSIVE Subbranches(_, _)

\* while (name == "Branch") { not an opening tag: NextNode, continue;
\*                            cvrf_branch_parse; NextNode }
Subbranches(rd, p) ==
    IF p = Hang THEN Hang
    ELSE IF xmlTextReaderConstLocalName(rd, p) # "Branch" THEN p
    ELSE IF rd[p].type # "ELEMENT" THEN Subbranches(rd, xmlTextReaderNextNode(rd, p))
    ELSE Subbranches(rd, xmlTextReaderNextNode(rd, cvrf_branch_parse_cursor(rd, p)))

cvrf_branch_parse_cursor(rd, p) ==
    LET q == xmlTextReaderNextElement(rd, p)
    IN  IF q = Hang THEN Hang
        ELSE IF xmlTextReaderConstLocalName(rd, q) = "FullProductName"
        THEN xmlTextReaderNextNode(rd,
                 xmlTextReaderNextNode(rd,
                     xmlTextReaderNextNode(rd, cvrf_product_name_parse_cursor(rd, q))))
        ELSE xmlTextReaderNextNode(rd, Subbranches(rd, q))

(***************************************************************************)
(* cvrf_product_tree_parse.                                                *)
(***************************************************************************)
\* while (name == "Branch") cvrf_branch_parse: closing tags included
RECURSIVE TreeBranches(_, _)
TreeBranches(rd, p) ==
    IF p = Hang THEN Hang
    ELSE IF xmlTextReaderConstLocalName(rd, p) # "Branch" THEN p
    ELSE TreeBranches(rd, cvrf_branch_parse_cursor(rd, p))

RECURSIVE TreeFields(_, _)
TreeFields(rd, p) ==
    IF p = Hang \/ AtEnd(rd, p) THEN Hang
    ELSE IF rd[p].name = "ProductTree" THEN p
    ELSE IF rd[p].type # "ELEMENT" THEN TreeFields(rd, xmlTextReaderNextNode(rd, p))
    ELSE LET q == CASE rd[p].name = "FullProductName" ->
                           cvrf_product_name_parse_cursor(rd, p)
                     [] rd[p].name = "Branch" -> TreeBranches(rd, p)
                     [] rd[p].name = "Relationship" ->
                           cvrf_relationship_parse_cursor(rd, p)
                     [] rd[p].name = "ProductGroups" -> cvrf_parse_container_cursor(rd, p)
                     [] OTHER -> p
         IN  TreeFields(rd, xmlTextReaderNextNode(rd, q))

\* an empty ProductTree is an error, the cursor stays
cvrf_product_tree_parse_cursor(rd, p) ==
    IF xmlTextReaderIsEmptyElement_cursor(rd, p)
    THEN p
    ELSE xmlTextReaderNextElement(rd,
             TreeFields(rd, xmlTextReaderNextElementWE(rd, p, "ProductTree")))

(***************************************************************************)
(* cvrf_doc_tracking_parse: no NextNode after the loop.                    *)
(***************************************************************************)
\* while (name != "Identification") { Alias: copy, NextNode;  NextNode }
RECURSIVE IdentificationAliases(_, _)
IdentificationAliases(rd, p) ==
    IF p = Hang \/ AtEnd(rd, p) THEN Hang
    ELSE IF rd[p].name = "Identification" THEN p
    ELSE IF rd[p].name = "Alias"
    THEN IdentificationAliases(rd,
             xmlTextReaderNextNode(rd,
                 xmlTextReaderNextNode(rd,
                     cvrf_parse_element_cursor(rd, p, "Alias", FALSE))))
    ELSE IdentificationAliases(rd, xmlTextReaderNextNode(rd, p))

\* the Generator branch
GeneratorFields(rd, p) ==
    LET q == xmlTextReaderNextElementWE(rd, p, "Generator")
        r == IF xmlTextReaderConstLocalName(rd, q) = "Engine"
             THEN xmlTextReaderNextElementWE(rd, oscap_element_string_copy_cursor(rd, q),
                                             "Generator")
             ELSE q
    IN  IF xmlTextReaderConstLocalName(rd, r) = "Date"
        THEN oscap_element_string_copy_cursor(rd, r)
        ELSE r

RECURSIVE TrackingFields(_, _)
TrackingFields(rd, p) ==
    IF p = Hang \/ AtEnd(rd, p) THEN Hang
    ELSE IF rd[p].name = "DocumentTracking" THEN p
    ELSE IF rd[p].type # "ELEMENT" THEN TrackingFields(rd, xmlTextReaderNextNode(rd, p))
    ELSE LET q == CASE rd[p].name = "Identification" ->
                           IdentificationAliases(rd,
                               cvrf_parse_element_cursor(rd,
                                   xmlTextReaderNextElementWE(rd, p, "Identification"),
                                   "ID", FALSE))
                     [] rd[p].name = "Status" -> oscap_element_string_copy_cursor(rd, p)
                     [] rd[p].name \in {"Version", "InitialReleaseDate",
                                        "CurrentReleaseDate"} ->
                           oscap_element_string_copy_cursor(rd, p)
                     [] rd[p].name = "RevisionHistory" -> cvrf_parse_container_cursor(rd, p)
                     [] rd[p].name = "Generator" -> GeneratorFields(rd, p)
                     [] OTHER -> p
         IN  TrackingFields(rd, xmlTextReaderNextNode(rd, q))

\* an empty DocumentTracking is an error, the cursor stays
cvrf_doc_tracking_parse_cursor(rd, p) ==
    IF xmlTextReaderIsEmptyElement_cursor(rd, p)
    THEN p
    ELSE TrackingFields(rd, xmlTextReaderNextElement(rd, p))

(***************************************************************************)
(* Bounded inputs.                                                         *)
(***************************************************************************)
PlatformA == <<"A">>
PlatformB == <<"B">>
PlatformC == <<"C">>
Platforms == {PlatformA, PlatformB, PlatformC}

\* Every list of Branches with n Branches in all, Families nested to any
\* depth, the Leaf branches drawn from L.
RECURSIVE BranchListsOfSize(_, _)
BranchesOfSize(L, n) ==
    (IF n = 1 THEN L ELSE {}) \cup
    {FamilyBranch(<<"F">>, kids) : kids \in BranchListsOfSize(L, n - 1)}
BranchListsOfSize(L, n) ==
    IF n = 0
    THEN {<<>>}
    ELSE UNION {{<<b>> \o rest : b \in BranchesOfSize(L, k),
                                 rest \in BranchListsOfSize(L, n - k)} : k \in 1..n}
BranchListsUpTo(L, n) == UNION {BranchListsOfSize(L, k) : k \in 0..n}

Leaves == {LeafBranch(PlatformA, IdP), LeafBranch(PlatformB, IdQ)}
BranchLists == BranchListsUpTo(Leaves, MaxNodes)

\* A Relationship as cvrf_relationship_parse builds it
Relationship(reference, relates_to) ==
    [relation_type |-> "DEFAULT_COMPONENT_OF",
     product_reference |-> reference,
     relates_to_ref |-> relates_to,
     product_name |-> [product_id |-> relates_to \o <<":">> \o reference,
                       cpe |-> reference]]
Relationships == {Relationship(<<"x">>, IdP), Relationship(<<"y">>, IdP),
                  Relationship(<<"x">>, IdQ)}
RelationshipLists == SeqsUpTo(Relationships, MaxRels)

StatusIdSet == {IdPX, IdQX}
IdLists == SeqsUpTo(StatusIdSet, MaxIds)
StatusValues == [type : StatusTypes, ids : IdLists]
\* the ProductStatus entries of the Vulnerabilities of a whole Model
Affected(ids) == [type |-> "KNOWN_AFFECTED", ids |-> ids]
VulnShapes == {<<>>, <<Affected(<<IdQX>>)>>,
               <<Affected(<<IdPX, IdQX>>)>>,
               <<Affected(<<IdPX>>), Affected(<<IdQX>>)>>}

(***************************************************************************)
(* SpecVuln: cvrf_vulnerability_filter_by_product on one Vulnerability.    *)
(***************************************************************************)
InitVuln ==
    /\ \E vs \in SeqsUpTo(StatusValues, MaxStatuses) :
          /\ heap = NewHeap(<<vs>>)
          /\ model = [cvrf_model_new EXCEPT !.vulnerabilities = NewVulnerabilities(<<vs>>)]
    /\ prod \in {IdP, IdQ, IdPX}
    /\ cpe = NULL
    /\ pc = "start"
    /\ ret = 0
    /\ orig = model
    /\ origHeap = heap
    /\ vrets = <<>>
    /\ product_ids = <<>>
    /\ out = NULL
    /\ dom = Nil
    /\ def_model = oval_definition_model_new
    /\ index = <<>>
    /\ it = 0
    /\ saved = Nil
    /\ reader = NoReader

VulnFilterByProduct ==
    /\ pc = "start"
    /\ LET r == cvrf_vulnerability_filter_by_product(model.vulnerabilities[1], prod, heap)
       IN  /\ model' = [model EXCEPT !.vulnerabilities[1] = r.vuln]
           /\ heap' = r.heap
           /\ ret' = r.ret
    /\ pc' = "vuln_filtered"
    /\ UNCHANGED <<cpe, prod, orig, origHeap, vrets, product_ids, out, dom,
                 def_model, index, it, saved, reader>>

NextVuln == VulnFilterByProduct

SpecVuln == InitVuln /\ [][NextVuln]_vars

(***************************************************************************)
(* Spec: cvrf_model_filter_by_cpe on a Model.                              *)
(***************************************************************************)
Init ==
    /\ \E bs \in BranchLists, rs \in RelationshipLists,
          vs \in SeqsUpTo(VulnShapes, MaxVulns) :
          /\ heap = NewHeap(vs)
          /\ model = [cvrf_model_new EXCEPT
                         !.doc_title = <<"t">>,
                         !.tree = [product_names |-> <<[product_id |-> IdP, cpe |-> <<"n">>]>>,
                                   branches |-> bs, relationships |-> rs,
                                   product_groups |-> <<[group_id |-> <<"g">>,
                                                         description |-> NULL,
                                                         product_ids |-> <<IdPX>>]>>],
                         !.vulnerabilities = NewVulnerabilities(vs)]
    /\ cpe \in Platforms
    /\ prod = NULL
    /\ pc = "start"
    /\ ret = 0
    /\ orig = model
    /\ origHeap = heap
    /\ vrets = <<>>
    /\ product_ids = <<>>
    /\ out = NULL
    /\ dom = Nil
    /\ def_model = oval_definition_model_new
    /\ index = <<>>
    /\ it = 0
    /\ saved = Nil
    /\ reader = NoReader

FilterByCpe ==
    /\ pc = "start"
    /\ LET r == cvrf_model_filter_by_cpe(model, cpe, heap)
       IN  /\ model' = r.model
           /\ heap' = r.heap
           /\ ret' = r.ret
           /\ vrets' = r.vrets
    /\ pc' = "filtered"
    /\ UNCHANGED <<cpe, prod, orig, origHeap, product_ids, out, dom,
                 def_model, index, it, saved, reader>>

Next == FilterByCpe

Spec == Init /\ [][Next]_vars

(***************************************************************************)
(* SpecSearch: get_cvrf_product_id_from_cpe on a ProductTree.  The call    *)
(* may be repeated.                                                        *)
(***************************************************************************)
SearchLeaves == {LeafBranch(PlatformA, IdP), LeafBranch(PlatformA, IdQ),
                 LeafBranch(PlatformB, IdQ)}

InitSearch ==
    /\ \E bs \in BranchListsUpTo(SearchLeaves, MaxSearchNodes) :
          model = [cvrf_model_new EXCEPT !.tree.branches = bs]
    /\ cpe \in Platforms
    /\ heap = <<>>
    /\ prod = NULL
    /\ pc = "start"
    /\ ret = 0
    /\ orig = model
    /\ origHeap = heap
    /\ vrets = <<>>
    /\ product_ids = <<>>
    /\ out = NULL
    /\ dom = Nil
    /\ def_model = oval_definition_model_new
    /\ index = <<>>
    /\ it = 0
    /\ saved = Nil
    /\ reader = NoReader

SearchByCpe ==
    /\ pc \in {"start", "searched"}
    /\ out' = get_cvrf_product_id_from_cpe(model.tree, cpe)
    /\ pc' = "searched"
    /\ UNCHANGED <<model, heap, cpe, prod, ret, orig, origHeap, vrets, product_ids, dom,
                 def_model, index, it, saved, reader>>

NextSearch == SearchByCpe

SpecSearch == InitSearch /\ [][NextSearch]_vars

(***************************************************************************)
(* A well-formed document around the bounded inputs: every entity with its *)
(* required fields, as the parser builds it from a CVRF 1.1 file.          *)
(***************************************************************************)
SampleDate == <<"2017-09-05T00:00:00Z">>

SampleNote ==
    [cvrf_note_new EXCEPT !.type = "GENERAL", !.ordinal = 1, !.title = <<"Topic">>,
                          !.audience = <<"All">>, !.contents = <<"An update.">>]

SampleReference ==
    [cvrf_reference_new EXCEPT !.type = "SELF", !.url = <<"https://example.com/a">>,
                               !.description = <<"Advisory">>]

SampleAcknowledgment ==
    [cvrf_acknowledgment_new EXCEPT !.names = <<<<"A. Finder">>>>,
                                    !.organizations = <<<<"Example Org">>>>,
                                    !.description = <<"Thanks.">>,
                                    !.urls = <<<<"https://example.com/f">>>>]

SampleRevision ==
    [cvrf_revision_new EXCEPT !.number = <<"1">>, !.date = SampleDate,
                              !.description = <<"Initial">>]

SamplePublisher(vendor_id) ==
    [cvrf_doc_publisher_new EXCEPT !.type = "VENDOR", !.vendor_id = vendor_id,
                                   !.contact_details = <<"secalert@example.com">>,
                                   !.issuing_authority = <<"Example PSIRT">>]

SampleTracking(engine, date) ==
    [cvrf_doc_tracking_new EXCEPT !.tracking_id = <<"EX-2017:1">>,
                                  !.aliases = <<<<"EX-1">>>>,
                                  !.status = "FINAL",
                                  !.version = <<"1">>,
                                  !.revision_history = <<SampleRevision>>,
                                  !.init_release_date = SampleDate,
                                  !.cur_release_date = SampleDate,
                                  !.generator_engine = engine,
                                  !.generator_date = date]

SampleDocument(vendor_id, engine, date) ==
    [cvrf_document_new EXCEPT !.doc_distribution = <<"Public">>,
                              !.aggregate_severity = <<"Important">>,
                              !.namespace = <<"https://example.com/severity">>,
                              !.tracking = SampleTracking(engine, date),
                              !.publisher = SamplePublisher(vendor_id),
                              !.doc_notes = <<SampleNote>>,
                              !.doc_references = <<SampleReference>>,
                              !.acknowledgments = <<SampleAcknowledgment>>]

SampleTree ==
    [product_names |-> <<[product_id |-> IdP, cpe |-> <<"Product P">>]>>,
     branches |-> <<FamilyBranch(<<"Family">>,
                                 <<LeafBranch(PlatformA, IdP), LeafBranch(PlatformB, IdQ)>>)>>,
     relationships |-> <<Relationship(<<"x">>, IdP)>>,
     product_groups |-> <<[cvrf_group_new EXCEPT !.group_id = <<"g">>,
                                                 !.description = <<"Group">>,
                                                 !.product_ids = <<IdPX>>]>>]

SampleModel(vendor_id, engine, date) ==
    [cvrf_model_new EXCEPT !.doc_title = <<"An advisory">>,
                           !.doc_type = <<"Security Advisory">>,
                           !.document = SampleDocument(vendor_id, engine, date),
                           !.tree = SampleTree]

SampleRemediation(date) ==
    [cvrf_remediation_new EXCEPT !.type = "VENDOR_FIX", !.date = date,
                                 !.description = <<"Update the package.">>,
                                 !.url = <<"https://example.com/fix">>,
                                 !.product_ids = <<IdPX>>]

SampleThreat(date) ==
    [cvrf_threat_new EXCEPT !.type = "IMPACT", !.date = date,
                            !.description = <<"Important">>,
                            !.product_ids = <<IdPX>>]

SampleScoreSet ==
    [cvrf_score_set_new EXCEPT !.vector = <<"AV:N/AC:L/Au:N/C:P/I:P/A:P">>,
                               !.impact.base = [nan |-> FALSE, score |-> 7],
                               !.product_ids = <<IdPX>>]

SampleInvolvement ==
    [cvrf_involvement_new EXCEPT !.status = "COMPLETED", !.party = "VENDOR"]

SampleCwe == [cwe |-> <<"Improper Input Validation">>, id |-> <<"CWE-20">>]

\* a parsed Vulnerability around product statuses that are already in place
SampleVulnerability(vuln, id, cve, remediation_date, threat_date) ==
    [vuln EXCEPT !.title = <<"A flaw">>,
                 !.system_id = id[1],
                 !.system_name = id[2],
                 !.discovery_date = SampleDate,
                 !.release_date = SampleDate,
                 !.cve_id = cve,
                 !.cwes = <<SampleCwe>>,
                 !.notes = <<SampleNote>>,
                 !.involvements = <<SampleInvolvement>>,
                 !.score_sets = <<SampleScoreSet>>,
                 !.threats = <<SampleThreat(threat_date)>>,
                 !.remediations = <<SampleRemediation(remediation_date)>>,
                 !.references = <<SampleReference>>,
                 !.acknowledgments = <<SampleAcknowledgment>>]

\* the tracking-system id and name of a Vulnerability: none, or an ID element
\* without or with its SystemName attribute
SystemIds == {<<NULL, NULL>>, <<<<"1234">>, NULL>>,
              <<<<"1234">>, <<"https://bugs.example.com">>>>}

OptionalDates == {NULL, SampleDate}

(***************************************************************************)
(* SpecFixed: cvrf_product_vulnerability_fixed on one Vulnerability.       *)
(***************************************************************************)
InitFixed ==
    /\ \E vs \in SeqsUpTo(StatusValues, MaxStatuses) :
          /\ heap = NewHeap(<<vs>>)
          /\ model = [cvrf_model_new EXCEPT !.vulnerabilities = NewVulnerabilities(<<vs>>)]
    /\ prod \in {IdP, IdPX, IdQX}
    /\ cpe = NULL
    /\ pc = "start"
    /\ ret = 0
    /\ orig = model
    /\ origHeap = heap
    /\ vrets = <<>>
    /\ product_ids = <<>>
    /\ out = NULL
    /\ dom = Nil
    /\ def_model = oval_definition_model_new
    /\ index = <<>>
    /\ it = 0
    /\ saved = Nil
    /\ reader = NoReader

VulnerabilityFixed ==
    /\ pc = "start"
    /\ out' = cvrf_product_vulnerability_fixed(model.vulnerabilities[1], prod, heap)
    /\ pc' = "classified"
    /\ UNCHANGED <<model, heap, cpe, prod, ret, orig, origHeap, vrets, product_ids, dom,
                 def_model, index, it, saved, reader>>

NextFixed == VulnerabilityFixed

SpecFixed == InitFixed /\ [][NextFixed]_vars

(***************************************************************************)
(* SpecResults: cvrf_model_results_to_dom on a session's model and its     *)
(* matched product ids.                                                    *)
(***************************************************************************)
Fixed(ids) == [type |-> "FIXED", ids |-> ids]
ResultShapes == {<<>>, <<Fixed(<<IdPX>>)>>,
                 <<Affected(<<IdPX, IdQX>>)>>,
                 <<Affected(<<IdQX>>), Fixed(<<IdP>>)>>}
ResultIds == {IdP, IdPX, IdQX}

InitResults ==
    /\ \E vs \in SeqsUpTo(ResultShapes, MaxVulns) :
          /\ heap = NewHeap(vs)
          /\ model = [SampleModel(NULL, NULL, NULL) EXCEPT
                         !.vulnerabilities = NewVulnerabilities(vs)]
    /\ product_ids \in SeqsUpTo(ResultIds, MaxResults)
    /\ cpe = NULL
    /\ prod = NULL
    /\ pc = "start"
    /\ ret = 0
    /\ orig = model
    /\ origHeap = heap
    /\ vrets = <<>>
    /\ out = NULL
    /\ dom = Nil
    /\ def_model = oval_definition_model_new
    /\ index = <<>>
    /\ it = 0
    /\ saved = Nil
    /\ reader = NoReader

ResultsToDom ==
    /\ pc = "start"
    /\ dom' = cvrf_model_results_to_dom(model, product_ids, heap)
    /\ pc' = "results"
    /\ UNCHANGED <<model, heap, cpe, prod, ret, orig, origHeap, vrets, product_ids, out,
                 def_model, index, it, saved, reader>>

NextResults == ResultsToDom

SpecResults == InitResults /\ [][NextResults]_vars

(***************************************************************************)
(* SpecRoundTrip: cvrf_model_to_dom on a parsed model, then                *)
(* cvrf_model_parse on what it wrote.                                      *)
(***************************************************************************)
InitRoundTrip ==
    /\ \E vs \in SeqsUpTo(VulnShapes, MaxVulns),
          vendor_id \in {NULL, <<"EX">>},
          engine \in {NULL, <<"Example Engine">>},
          date \in OptionalDates,
          id \in SystemIds,
          cve \in {NULL, <<"CVE-2017-0001">>},
          remediation_date \in OptionalDates,
          threat_date \in OptionalDates :
          /\ heap = NewHeap(vs)
          /\ model = [SampleModel(vendor_id, engine, date) EXCEPT
                         !.vulnerabilities =
                             [i \in 1..Len(vs) |->
                                 SampleVulnerability(NewVulnerabilities(vs)[i], id, cve,
                                                     remediation_date, threat_date)]]
    /\ cpe = NULL
    /\ prod = NULL
    /\ pc = "start"
    /\ ret = 0
    /\ orig = model
    /\ origHeap = heap
    /\ vrets = <<>>
    /\ product_ids = <<>>
    /\ out = NULL
    /\ dom = Nil
    /\ def_model = oval_definition_model_new
    /\ index = <<>>
    /\ it = 0
    /\ saved = Nil
    /\ reader = NoReader

ModelToDom ==
    /\ pc = "start"
    /\ dom' = cvrf_model_to_dom(model, heap)
    /\ pc' = "serialized"
    /\ UNCHANGED <<model, heap, cpe, prod, ret, orig, origHeap, vrets, product_ids, out,
                 def_model, index, it, saved, reader>>

ModelParse ==
    /\ pc = "serialized"
    /\ LET r == cvrf_model_parse(dom)
       IN  /\ model' = r.model
           /\ heap' = r.heap
    /\ pc' = "parsed"
    /\ UNCHANGED <<cpe, prod, ret, orig, origHeap, vrets, product_ids, out, dom,
                 def_model, index, it, saved, reader>>

NextRoundTrip == ModelToDom \/ ModelParse

SpecRoundTrip == InitRoundTrip /\ [][NextRoundTrip]_vars

(***************************************************************************)
(* SpecRpm: parse_rpm_attributes_from_cvrf_product_id on one product id    *)
(* put together from a platform prefix, a package name and an EVR.         *)
(***************************************************************************)
PrefixServer == <<"7", "S", "e", "r", "v", "e", "r">>
PrefixCpe ==
    <<"c", "p", "e", ":", "/", "o", ":", "v", "e", "n", "d", "o", "r",
    ":", "p", "l", "a", "t", "f", "o", "r", "m", "-", "a">>
PackageOpenssl == <<"o", "p", "e", "n", "s", "s", "l">>
PackageAb == <<"a", "b">>
EvrPlain == <<"1", ".", "0", ".", "2", "k", "-", "1", "6", ".", "e", "l",
            "7">>
EvrEpoch == <<"0", ":", "1", ".", "0", ".", "2", "k", "-", "1", "6", ".",
            "e", "l", "7">>

RpmPrefixes == {PrefixServer, PrefixCpe, <<"c", ":", "/", "o">>}
RpmPackages == {PackageOpenssl, PackageAb}
RpmEvrs == {EvrPlain, EvrEpoch}

\* "<prefix>:<package-name>-<evr>"
ProductIdOf(prefix, package, evr) == prefix \o <<":">> \o package \o <<"-">> \o evr

\* the Product Version branch of a package, as the product tree lists it
PackageBranch(package, evr) ==
    LeafBranch(package \o <<"-">> \o evr, package \o <<"-">> \o evr)

RpmBranchLists(package, evr) ==
    {<<>>,
     <<PackageBranch(package, evr)>>,
     <<FamilyBranch(<<"F">>, <<PackageBranch(package, evr)>>)>>,
     <<LeafBranch(PlatformA, IdP), PackageBranch(package, evr)>>}

InitRpm ==
    /\ \E prefix \in RpmPrefixes, package \in RpmPackages, evr \in RpmEvrs :
          /\ prod = ProductIdOf(prefix, package, evr)
          /\ cpe = prefix
          /\ orig = [rpm_name |-> package, evr_format |-> evr]
          /\ \E branches \in RpmBranchLists(package, evr) :
                model = [cvrf_model_new EXCEPT !.tree.branches = branches]
    /\ heap = <<>>
    /\ origHeap = <<>>
    /\ pc = "start"
    /\ ret = 0
    /\ vrets = <<>>
    /\ product_ids = <<>>
    /\ out = cvrf_rpm_attributes_new
    /\ dom = Nil
    /\ def_model = oval_definition_model_new
    /\ index = <<>>
    /\ it = 0
    /\ saved = Nil
    /\ reader = NoReader

ParseRpmAttributes ==
    /\ pc = "start"
    /\ out' \in parse_rpm_attributes_from_cvrf_product_id(model.tree, prod)
    /\ it' = ColonIndex(PackageOf(prod))
    /\ pc' = "decomposed"
    /\ UNCHANGED <<model, heap, cpe, prod, ret, orig, origHeap, vrets, product_ids, dom,
                   def_model, index, saved, reader>>

NextRpm == ParseRpmAttributes

SpecRpm == InitRpm /\ [][NextRpm]_vars

(***************************************************************************)
(* SpecSynth: one pass of cvrf_session_construct_definition_model over the *)
(* session's product ids, one step per identifier.                         *)
(***************************************************************************)
SynthIdAb == ProductIdOf(<<"7">>, PackageAb, <<"0", ":", "1">>)
SynthIdCd == ProductIdOf(<<"7">>, <<"c", "d">>, <<"0", ":", "2">>)
SynthIds == {SynthIdAb, SynthIdCd, IdPX}

SynthBranches ==
    <<PackageBranch(PackageAb, <<"0", ":", "1">>),
      PackageBranch(<<"c", "d">>, <<"0", ":", "2">>)>>
SynthBranchLists == {SynthBranches, SubSeq(SynthBranches, 1, 1)}

InitSynth ==
    /\ product_ids \in SeqsUpTo(SynthIds, MaxSynthIds)
    /\ \E branches \in SynthBranchLists :
          model = [cvrf_model_new EXCEPT !.tree.branches = branches]
    /\ heap = <<>>
    /\ cpe = NULL
    /\ prod = NULL
    /\ pc = "start"
    /\ ret = 0
    /\ orig = model
    /\ origHeap = heap
    /\ vrets = <<>>
    /\ out = <<>>
    /\ dom = Nil
    /\ def_model = oval_definition_model_new
    /\ index = <<>>
    /\ it = 0
    /\ saved = Nil
    /\ reader = NoReader

\* one turn of the while loop: index is it + 1; out keeps the attributes
\* that each call of parse_rpm_attributes_from_cvrf_product_id returned
ConstructStep ==
    /\ pc = "start"
    /\ it < Len(product_ids)
    /\ \E attributes \in
            parse_rpm_attributes_from_cvrf_product_id(model.tree, product_ids[it + 1]) :
          IF attributes.crashed
          THEN /\ pc' = "crashed"
               /\ UNCHANGED <<def_model, it, out>>
          ELSE /\ def_model' = create_oval_definition_for_cvrf_rpm_attributes(
                                   def_model, attributes, it + 1)
               /\ out' = Append(out, attributes)
               /\ it' = it + 1
               /\ pc' = pc
    /\ UNCHANGED <<model, heap, cpe, prod, ret, orig, origHeap, vrets, product_ids, dom,
                   index, saved, reader>>

\* the iterator has no more ids: return 0
ConstructDone ==
    /\ pc = "start"
    /\ it = Len(product_ids)
    /\ ret' = 0
    /\ pc' = "synthesized"
    /\ UNCHANGED <<model, heap, cpe, prod, orig, origHeap, vrets, product_ids, out, dom,
                   def_model, index, it, saved, reader>>

NextSynth == ConstructStep \/ ConstructDone

SpecSynth == InitSynth /\ [][NextSynth]_vars

(***************************************************************************)
(* SpecClone: cvrf_model_clone on a model with every kind of entity.       *)
(***************************************************************************)
InitClone ==
    /\ \E vs \in SeqsUpTo(VulnShapes, MaxVulns),
          id \in SystemIds,
          cve \in {NULL, <<"CVE-2017-0001">>},
          engine \in {NULL, <<"Example Engine">>} :
          /\ heap = NewHeap(vs)
          /\ model = [SampleModel(<<"EX">>, engine, SampleDate) EXCEPT
                         !.vulnerabilities =
                             [i \in 1..Len(vs) |->
                                 SampleVulnerability(NewVulnerabilities(vs)[i], id, cve,
                                                     SampleDate, SampleDate)]]
    /\ cpe = NULL
    /\ prod = NULL
    /\ pc = "start"
    /\ ret = 0
    /\ orig = model
    /\ origHeap = heap
    /\ vrets = <<>>
    /\ product_ids = <<>>
    /\ out = NULL
    /\ dom = Nil
    /\ def_model = oval_definition_model_new
    /\ index = <<>>
    /\ it = 0
    /\ saved = Nil
    /\ reader = NoReader

\* model becomes the clone; orig and origHeap keep the model that was cloned
ModelClone ==
    /\ pc = "start"
    /\ \E junk \in [1..Len(model.vulnerabilities) ->
                       [system_name : Uninitialized, cve_id : Uninitialized]] :
          LET r == cvrf_model_clone(model, heap, junk)
          IN  /\ model' = r.model
              /\ heap' = r.heap
    /\ out' = ModelClonePointers(model.vulnerabilities)
    /\ pc' = "cloned"
    /\ UNCHANGED <<cpe, prod, ret, orig, origHeap, vrets, product_ids, dom,
                   def_model, index, it, saved, reader>>

NextClone == ModelClone

SpecClone == InitClone /\ [][NextClone]_vars

(***************************************************************************)
(* SpecTree: cvrf_product_tree_parse on a ProductTree element whose Branch *)
(* elements have any Type and hold either one FullProductName or Branch    *)
(* elements.                                                               *)
(***************************************************************************)
BranchTypeTexts == {<<"Vendor">>, <<"Product Family">>, <<"Product Version">>}

FullProductNameNode ==
    xmlNewProp(xmlNodeAddContent(xmlNewNode("FullProductName"), <<"Product P">>),
               "ProductID", IdP)

\* <Branch Type=".." Name="B"> around the given child elements
BranchNode(type_text, kids) ==
    [xmlNewProp(xmlNewProp(xmlNewNode("Branch"), "Type", type_text), "Name", <<"B">>)
        EXCEPT !.children = kids]

\* every list of Branch elements with n Branch elements in all
RECURSIVE BranchNodeListsOfSize(_)
BranchNodesOfSize(n) ==
    (IF n = 1
     THEN {BranchNode(t, <<FullProductNameNode>>) : t \in BranchTypeTexts}
     ELSE {}) \cup
    {BranchNode(t, kids) : t \in BranchTypeTexts,
                           kids \in BranchNodeListsOfSize(n - 1) \ {<<>>}}
BranchNodeListsOfSize(n) ==
    IF n = 0
    THEN {<<>>}
    ELSE UNION {{<<b>> \o rest : b \in BranchNodesOfSize(k),
                                 rest \in BranchNodeListsOfSize(n - k)} : k \in 1..n}

InitTree ==
    /\ \E n \in 1..MaxBranchNodes :
          \E kids \in BranchNodeListsOfSize(n) :
              dom = [xmlNewNode("ProductTree") EXCEPT !.children = kids]
    /\ model = cvrf_model_new
    /\ heap = <<>>
    /\ cpe = NULL
    /\ prod = NULL
    /\ pc = "start"
    /\ ret = 0
    /\ orig = model
    /\ origHeap = heap
    /\ vrets = <<>>
    /\ product_ids = <<>>
    /\ out = NULL
    /\ def_model = oval_definition_model_new
    /\ index = <<>>
    /\ it = 0
    /\ saved = Nil
    /\ reader = NoReader

\* ret->tree = cvrf_product_tree_parse(reader)
TreeParse ==
    /\ pc = "start"
    /\ model' = [model EXCEPT !.tree = cvrf_product_tree_parse(dom)]
    /\ pc' = "parsed"
    /\ UNCHANGED <<heap, cpe, prod, ret, orig, origHeap, vrets, product_ids, out, dom,
                   def_model, index, it, saved, reader>>

NextTree == TreeParse

SpecTree == InitTree /\ [][NextTree]_vars

(***************************************************************************)
(* SpecEmit: cvrf_model_to_dom or cvrf_model_results_to_dom on models      *)
(* whose optional fields are set or not and whose lists are empty or not.  *)
(***************************************************************************)
EmitKinds == {"bare", "full", "silent note"}

\* a Vulnerability with nothing but its ProductStatus entries, one with
\* every field and list, or one whose only Note has no contents
EmitVulnerability(vuln, kind) ==
    CASE kind = "bare" -> vuln
      [] kind = "full" ->
             SampleVulnerability(vuln, <<<<"1234">>, NULL>>, <<"CVE-2017-0001">>,
                                 SampleDate, SampleDate)
      [] kind = "silent note" -> [vuln EXCEPT !.notes = <<cvrf_note_new>>]

EmitStatusShapes == {<<>>, <<Affected(<<IdPX>>)>>}
EmitProductIds == {<<>>, <<IdPX>>, <<IdQX, IdPX>>}

InitEmit ==
    /\ \E vs \in SeqsUpTo(EmitStatusShapes, MaxVulns),
          title \in {NULL, <<"An advisory">>},
          type \in {NULL, <<"Security Advisory">>},
          document \in {cvrf_document_new,
                        SampleDocument(NULL, <<"Example Engine">>, SampleDate)},
          tree \in {cvrf_product_tree_new, SampleTree} :
          \E kinds \in [1..Len(vs) -> EmitKinds] :
              /\ heap = NewHeap(vs)
              /\ model = [doc_title |-> title, doc_type |-> type,
                          document |-> document, tree |-> tree,
                          vulnerabilities |->
                              [i \in 1..Len(vs) |->
                                  EmitVulnerability(NewVulnerabilities(vs)[i], kinds[i])]]
    /\ product_ids \in EmitProductIds
    /\ cpe = NULL
    /\ prod = NULL
    /\ pc = "start"
    /\ ret = 0
    /\ orig = model
    /\ origHeap = heap
    /\ vrets = <<>>
    /\ out = NULL
    /\ dom = Nil
    /\ def_model = oval_definition_model_new
    /\ index = <<>>
    /\ it = 0
    /\ saved = Nil
    /\ reader = NoReader

NextEmit == ModelToDom \/ ResultsToDom

SpecEmit == InitEmit /\ [][NextEmit]_vars

(***************************************************************************)
(* SpecExport: cvrf_export_results on a document whose ProductTree holds   *)
(* platform Leaves, package Leaves and Relationships between them.         *)
(***************************************************************************)
PlatformId == <<"7">>
ExportLeaves == {LeafBranch(PlatformA, PlatformId), LeafBranch(PlatformB, IdQ),
                 PackageBranch(PackageAb, <<"0", ":", "1">>)}
ExportRelationships ==
    {Relationship(PackageAb \o <<"-", "0", ":", "1">>, PlatformId),
     Relationship(<<"c", "d", "-", "0", ":", "2">>, PlatformId),
     Relationship(<<"x">>, IdQ)}
\* no Vulnerability, or one whose ProductStatus names a matched or another id
ExportVulnerabilityLists == {<<>>, <<<<Affected(<<SynthIdAb>>)>>>>,
                             <<<<Affected(<<IdQX>>)>>>>}

InitExport ==
    /\ \E bs \in BranchListsUpTo(ExportLeaves, MaxNodes),
          rs \in SeqsUpTo(ExportRelationships, MaxRels),
          vs \in ExportVulnerabilityLists :
          /\ heap = NewHeap(vs)
          /\ model = [cvrf_model_new EXCEPT
                         !.doc_title = <<"t">>,
                         !.tree.branches = bs,
                         !.tree.relationships = rs,
                         !.vulnerabilities = NewVulnerabilities(vs)]
    /\ cpe \in Platforms
    /\ prod = NULL
    /\ pc = "start"
    /\ ret = 0
    /\ orig = model
    /\ origHeap = heap
    /\ vrets = <<>>
    /\ product_ids = <<>>
    /\ out = NULL
    /\ dom = Nil
    /\ def_model = oval_definition_model_new
    /\ index = <<>>
    /\ it = 0
    /\ saved = Nil
    /\ reader = NoReader

ExportResults ==
    /\ pc = "start"
    /\ \E r \in cvrf_export_results(model, heap, cpe) :
          /\ model' = r.model
          /\ heap' = r.heap
          /\ product_ids' = r.product_ids
          /\ def_model' = r.def_model
          /\ dom' = r.dom
          /\ saved' = r.saved
          /\ ret' = r.ret
          /\ pc' = IF r.crashed THEN "crashed" ELSE "exported"
    /\ UNCHANGED <<cpe, prod, orig, origHeap, vrets, out, index, it, reader>>

NextExport == ExportResults

SpecExport == InitExport /\ [][NextExport]_vars

(***************************************************************************)
(* SpecIndex: cvrf_index_get_results_source on an Index of up to MaxModels *)
(* Models.  Each Model has a platform Leaf, maybe a package Leaf, at most  *)
(* one Relationship and at most one Vulnerability.                         *)
(***************************************************************************)
PackageCd == <<"c", "d">>
IndexBranchLists ==
    {<<LeafBranch(PlatformA, PlatformId), PackageBranch(PackageAb, <<"0", ":", "1">>)>>,
     <<LeafBranch(PlatformA, PlatformId), PackageBranch(PackageCd, <<"0", ":", "2">>)>>,
     <<LeafBranch(PlatformB, IdQ)>>}
IndexRelationshipLists ==
    {<<>>,
     <<Relationship(PackageAb \o <<"-", "0", ":", "1">>, PlatformId)>>,
     <<Relationship(PackageCd \o <<"-", "0", ":", "2">>, PlatformId)>>}
IndexVulnerabilityLists == {<<>>, <<<<Affected(<<SynthIdAb>>)>>>>}
IndexModelShapes ==
    [branches : IndexBranchLists, relationships : IndexRelationshipLists,
     vs : IndexVulnerabilityLists]

\* the ProductStatus lists of all Models live in one heap
IndexModels(shapes) ==
    LET vss == [k \in 1..Len(shapes) |-> shapes[k].vs]
        vulns == NewVulnerabilities(Flatten(vss))
        before(k) == Len(Flatten(SubSeq(vss, 1, k - 1)))
    IN  [k \in 1..Len(shapes) |->
            [cvrf_model_new EXCEPT
                !.doc_title = <<"t">>,
                !.tree.branches = shapes[k].branches,
                !.tree.relationships = shapes[k].relationships,
                !.vulnerabilities = SubSeq(vulns, before(k) + 1,
                                           before(k) + Len(shapes[k].vs))]]

InitIndex ==
    /\ \E shapes \in SeqsUpTo(IndexModelShapes, MaxModels) :
          /\ index = IndexModels(shapes)
          /\ heap = NewHeap(Flatten([k \in 1..Len(shapes) |-> shapes[k].vs]))
    /\ model = Nil
    /\ cpe \in Platforms
    /\ prod = NULL
    /\ pc = "start"
    /\ ret = 0
    /\ orig = index
    /\ origHeap = heap
    /\ vrets = <<>>
    /\ product_ids = <<>>
    /\ out = NULL
    /\ dom = Nil
    /\ def_model = oval_definition_model_new
    /\ it = 0
    /\ saved = Nil
    /\ reader = NoReader

IndexGetResultsSource ==
    /\ pc = "start"
    /\ \E r \in cvrf_index_get_results_source(index, heap, cpe) :
          /\ index' = r.models
          /\ model' = r.model
          /\ heap' = r.heap
          /\ product_ids' = r.product_ids
          /\ def_model' = r.def_model
          /\ dom' = r.dom
          /\ it' = r.it
          /\ pc' = IF r.crashed THEN "crashed" ELSE "indexed"
    /\ UNCHANGED <<cpe, prod, ret, orig, origHeap, vrets, out, saved, reader>>

NextIndex == IndexGetResultsSource

SpecIndex == InitIndex /\ [][NextIndex]_vars

(***************************************************************************)
(* SpecCursor: one entity routine is called with the cursor on the opening *)
(* tag of its entity.  The entity stands in its parent element, alone or   *)
(* followed by a second entity of its kind, written with or without        *)
(* whitespace between the tags.                                            *)
(***************************************************************************)
Elem(name, content, children) ==
    [xmlNewNode(name) EXCEPT !.content = content, !.children = children]

TextElem(name) == Elem(name, <<"v">>, <<>>)

WhitespaceNode(depth) ==
    [type |-> "SIGNIFICANT_WHITESPACE", name |-> "#text", attrs |-> <<>>,
     depth |-> depth, empty |-> FALSE, value |-> <<" ">>]

\* the nodes the reader visits in an element written at a depth
RECURSIVE NodesOf(_, _, _)
NodesOf(node, depth, ws) ==
    LET open == [type |-> "ELEMENT", name |-> node.name, attrs |-> node.attrs,
                 depth |-> depth, empty |-> FALSE, value |-> NULL]
        gap == IF ws THEN <<WhitespaceNode(depth + 1)>> ELSE <<>>
    IN  IF node.content = NULL /\ node.children = <<>>
        THEN <<[open EXCEPT !.empty = TRUE]>>
        ELSE <<open>>
             \o (IF node.content = NULL
                 THEN <<>>
                 ELSE <<[type |-> "TEXT", name |-> "#text", attrs |-> <<>>,
                         depth |-> depth + 1, empty |-> FALSE, value |-> node.content]>>)
             \o Flatten([k \in 1..Len(node.children) |->
                            gap \o NodesOf(node.children[k], depth + 1, ws)])
             \o (IF node.children = <<>> THEN <<>> ELSE gap)
             \o <<[open EXCEPT !.type = "END_ELEMENT"]>>

ThreatElem == Elem("Threat", NULL, <<TextElem("Description"), TextElem("ProductID")>>)
StatusElem == Elem("Status", NULL, <<TextElem("ProductID")>>)
NameElem == TextElem("FullProductName")
LeafElem == Elem("Branch", NULL, <<NameElem>>)
RevisionElem ==
    Elem("Revision", NULL,
         <<TextElem("Number"), TextElem("Date"), TextElem("Description")>>)

\* the entity kinds by their tags, each with the tag of its parent, the
\* depth it is written at and sample elements
EntitySamples ==
    {<<"Remediation", "Remediations", 3,
       {Elem("Remediation", NULL, <<TextElem("Description"), TextElem("ProductID")>>)}>>,
     <<"ScoreSet", "CVSSScoreSets", 3,
       {Elem("ScoreSet", NULL, <<TextElem("BaseScore"), TextElem("Vector")>>)}>>,
     <<"Threat", "Threats", 3, {ThreatElem}>>,
     <<"Status", "ProductStatuses", 3,
       {StatusElem, Elem("Status", NULL, <<TextElem("ProductID"), TextElem("ProductID")>>)}>>,
     <<"Involvement", "Involvements", 3,
       {Elem("Involvement", NULL, <<TextElem("Description")>>)}>>,
     <<"CWE", "Vulnerability", 2, {TextElem("CWE")}>>,
     <<"Vulnerability", "cvrfdoc", 1,
       {Elem("Vulnerability", NULL, <<TextElem("Title")>>),
        Elem("Vulnerability", NULL,
             <<TextElem("Title"), Elem("Threats", NULL, <<ThreatElem>>)>>),
        Elem("Vulnerability", NULL,
             <<Elem("ProductStatuses", NULL, <<StatusElem, StatusElem>>),
               TextElem("CVE")>>)}>>,
     <<"FullProductName", "ProductTree", 2, {NameElem}>>,
     <<"Group", "ProductGroups", 3,
       {Elem("Group", NULL, <<TextElem("Description"), TextElem("ProductID")>>)}>>,
     <<"Relationship", "ProductTree", 2, {Elem("Relationship", NULL, <<NameElem>>)}>>,
     <<"Branch", "ProductTree", 2,
       {LeafElem, Elem("Branch", NULL, <<LeafElem>>),
        Elem("Branch", NULL, <<LeafElem, LeafElem>>)}>>,
     <<"ProductTree", "cvrfdoc", 1,
       {Elem("ProductTree", NULL, <<NameElem>>),
        Elem("ProductTree", NULL, <<LeafElem, Elem("Relationship", NULL, <<NameElem>>)>>)}>>,
     <<"Acknowledgment", "Acknowledgments", 2,
       {Elem("Acknowledgment", NULL, <<TextElem("Name"), TextElem("Description")>>)}>>,
     <<"Reference", "DocumentReferences", 2,
       {Elem("Reference", NULL, <<TextElem("URL"), TextElem("Description")>>)}>>,
     <<"Note", "DocumentNotes", 2, {TextElem("Note")}>>,
     <<"Revision", "RevisionHistory", 3, {RevisionElem}>>,
     <<"DocumentTracking", "cvrfdoc", 1,
       {Elem("DocumentTracking", NULL,
             <<Elem("Identification", NULL, <<TextElem("ID")>>), TextElem("Version")>>),
        Elem("DocumentTracking", NULL,
             <<TextElem("Status"), Elem("RevisionHistory", NULL, <<RevisionElem>>),
               Elem("Generator", NULL, <<TextElem("Engine")>>)>>)}>>,
     <<"DocumentPublisher", "cvrfdoc", 1,
       {Elem("DocumentPublisher", NULL,
             <<TextElem("ContactDetails"), TextElem("IssuingAuthority")>>),
        Elem("DocumentPublisher", NULL, <<TextElem("IssuingAuthority")>>)}>>}

\* the document around an entity: its parent, the entity, maybe a second one
ReaderOn(kind, node, ws, twice) ==
    LET parent == Elem(kind[2], NULL, IF twice THEN <<node, node>> ELSE <<node>>)
    IN  [nodes |-> NodesOf(parent, kind[3] - 1, ws), pos |-> IF ws THEN 3 ELSE 2]

InitCursor ==
    /\ \E kind \in EntitySamples :
          \E node \in kind[4] \cup {Elem(kind[1], NULL, <<>>)}, ws \in BOOLEAN,
             twice \in BOOLEAN :
             reader = ReaderOn(kind, node, ws, twice)
    /\ model = cvrf_model_new
    /\ heap = <<>>
    /\ cpe = NULL
    /\ prod = NULL
    /\ pc = "start"
    /\ ret = 0
    /\ orig = reader
    /\ origHeap = heap
    /\ vrets = <<>>
    /\ product_ids = <<>>
    /\ out = NULL
    /\ dom = Nil
    /\ def_model = oval_definition_model_new
    /\ index = <<>>
    /\ it = 0
    /\ saved = Nil

\* a routine called on the tag it is made for has left the cursor at p
Called(tag, p) ==
    /\ pc = "start"
    /\ xmlTextReaderConstLocalName(reader.nodes, reader.pos) = tag
    /\ reader' = [reader EXCEPT !.pos = p]
    /\ pc' = IF p = Hang THEN "hung" ELSE "parsed"
    /\ UNCHANGED <<model, heap, cpe, prod, ret, orig, origHeap, vrets, product_ids, out,
                   dom, def_model, index, it, saved>>

RemediationParse ==
    Called("Remediation", cvrf_remediation_parse_cursor(reader.nodes, reader.pos))
ScoreSetParse == Called("ScoreSet", cvrf_score_set_parse_cursor(reader.nodes, reader.pos))
ThreatParse == Called("Threat", cvrf_threat_parse_cursor(reader.nodes, reader.pos))
ProductStatusParse ==
    Called("Status", cvrf_product_status_parse_cursor(reader.nodes, reader.pos))
InvolvementParse ==
    Called("Involvement", cvrf_involvement_parse_cursor(reader.nodes, reader.pos))
VulnerabilityCweParse ==
    Called("CWE", cvrf_vulnerability_cwe_parse_cursor(reader.nodes, reader.pos))
VulnerabilityParse ==
    Called("Vulnerability", cvrf_vulnerability_parse_cursor(reader.nodes, reader.pos))
ProductNameParse ==
    Called("FullProductName", cvrf_product_name_parse_cursor(reader.nodes, reader.pos))
GroupParse == Called("Group", cvrf_group_parse_cursor(reader.nodes, reader.pos))
RelationshipParse ==
    Called("Relationship", cvrf_relationship_parse_cursor(reader.nodes, reader.pos))
BranchParse == Called("Branch", cvrf_branch_parse_cursor(reader.nodes, reader.pos))
ProductTreeParse ==
    Called("ProductTree", cvrf_product_tree_parse_cursor(reader.nodes, reader.pos))
AcknowledgmentParse ==
    Called("Acknowledgment", cvrf_acknowledgment_parse_cursor(reader.nodes, reader.pos))
ReferenceParse == Called("Reference", cvrf_reference_parse_cursor(reader.nodes, reader.pos))
NoteParse == Called("Note", cvrf_note_parse_cursor(reader.nodes, reader.pos))
RevisionParse == Called("Revision", cvrf_revision_parse_cursor(reader.nodes, reader.pos))
DocTrackingParse ==
    Called("DocumentTracking", cvrf_doc_tracking_parse_cursor(reader.nodes, reader.pos))
DocPublisherParse ==
    Called("DocumentPublisher", cvrf_doc_publisher_parse_cursor(reader.nodes, reader.pos))

NextCursor ==
    \/ RemediationParse \/ ScoreSetParse \/ ThreatParse \/ ProductStatusParse
    \/ InvolvementParse \/ VulnerabilityCweParse \/ VulnerabilityParse
    \/ ProductNameParse \/ GroupParse \/ RelationshipParse \/ BranchParse
    \/ ProductTreeParse \/ AcknowledgmentParse \/ ReferenceParse \/ NoteParse
    \/ RevisionParse \/ DocTrackingParse \/ DocPublisherParse

SpecCursor == InitCursor /\ [][NextCursor]_vars

(***************************************************************************)
(* Vocabulary of the properties.                                           *)
(***************************************************************************)
\* The Leaf branches of a list of Branches, in depth-first document order
RECURSIVE LeavesInOrder(_)
LeavesInOrder(branches) ==
    IF branches = <<>>
    THEN <<>>
    ELSE (IF Head(branches).type = "PRODUCT_FAMILY"
          THEN LeavesInOrder(Head(branches).subbranches)
          ELSE <<Head(branches)>>) \o LeavesInOrder(Tail(branches))

LeavesNamed(branches, c) ==
    SelectSeq(LeavesInOrder(branches), LAMBDA b : b.branch_name = c)

\* The product id the platform matches in the model as built, NULL if none
MatchedId == get_cvrf_product_id_from_cpe(orig.tree, cpe)

\* The Relationships of the model as built that relate to the matched id
Survivors ==
    SelectSeq(orig.tree.relationships, LAMBDA r : r.relates_to_ref = MatchedId)

\* The ids of a list that have p as a prefix, in list order
Narrowed(ids, p) == SelectSeq(ids, LAMBDA id : oscap_str_startswith(id, p))

\* C1: when no Leaf branch is named P, cvrf_model_filter_by_cpe(model, P)
\* returns -1 and leaves the whole model (product names, branches,
\* relationships, groups, vulnerabilities and their id lists) as it was.
C1_NoLeafFailsUnchanged ==
    (pc = "filtered" /\ LeavesNamed(orig.tree.branches, cpe) = <<>>)
        => /\ ret = -1
           /\ ModelView(model, heap) = ModelView(orig, origHeap)

C1_Witness ==
    /\ pc = "filtered"
    /\ LeavesNamed(orig.tree.branches, cpe) = <<>>
    /\ LeavesInOrder(orig.tree.branches) # <<>>
    /\ orig.tree.relationships # <<>>
    /\ Len(orig.vulnerabilities) = 2
    /\ ret = -1

\* C3: when the tree filter succeeds, the Relationship list is exactly the
\* original Relationships whose relates-to-reference equals the matched
\* product id, in their original order.
C3_SurvivorsExactly ==
    (pc = "filtered" /\ ret = 0) => model.tree.relationships = Survivors

C3_Witness ==
    /\ pc = "filtered"
    /\ ret = 0
    /\ Len(orig.tree.relationships) = 2
    /\ Len(model.tree.relationships) = 1
    /\ model.tree.relationships[1] = orig.tree.relationships[2]

\* C4 as stated: a Leaf matches but no Relationship relates to the matched
\* id; the filter fails and the Relationship list is left empty.
C4_LeftEmpty ==
    (pc = "filtered" /\ MatchedId # NULL /\ Survivors = <<>>)
        => (ret = -1 /\ model.tree.relationships = <<>>)

\* C4 as amended: a Leaf matches but no Relationship relates to the matched
\* id; the filter fails and the Relationship list, like the rest of the
\* model, is left as it was.
C4_LeftAsItWas ==
    (pc = "filtered" /\ MatchedId # NULL /\ Survivors = <<>>)
        => /\ ret = -1
           /\ model.tree.relationships = orig.tree.relationships
           /\ ModelView(model, heap) = ModelView(orig, origHeap)

C4_Witness ==
    /\ pc = "filtered"
    /\ MatchedId # NULL
    /\ Survivors = <<>>
    /\ Len(orig.tree.relationships) = 2
    /\ ret = -1

\* C7: once the Relationship narrowing has succeeded, the per-Vulnerability
\* filter is applied to every Vulnerability in order and the call returns 0,
\* whatever those filters return; a Vulnerability whose filter succeeded
\* holds only ids with the matched id as prefix, also after a failed one.
C7_ContinuesPastFailures ==
    (pc = "filtered" /\ MatchedId # NULL /\ Survivors # <<>>)
        => /\ ret = 0
           /\ Len(vrets) = Len(orig.vulnerabilities)
           /\ \A i \in 1..Len(vrets) :
                 IF vrets[i] = 0
                 THEN \A j \in 1..Len(model.vulnerabilities[i].product_statuses) :
                         StatusIds(model.vulnerabilities[i], heap)[j]
                            = Narrowed(StatusIds(model.vulnerabilities[i], heap)[j], MatchedId)
                 ELSE StatusIds(model.vulnerabilities[i], heap)
                         = StatusIds(orig.vulnerabilities[i], origHeap)

C7_Witness ==
    /\ pc = "filtered"
    /\ ret = 0
    /\ Len(vrets) = 2
    /\ vrets[1] = -1
    /\ vrets[2] = 0
    /\ StatusIds(model.vulnerabilities[2], heap) # StatusIds(orig.vulnerabilities[2], origHeap)

\* C5 as stated: after a successful cvrf_vulnerability_filter_by_product(vuln, P)
\* every ProductStatus entry holds exactly the ids of its own original list
\* that have P as a prefix, and no two entries share one list.
C5_OwnIdsOnly ==
    (pc = "vuln_filtered" /\ ret = 0)
        => /\ \A j \in 1..Len(orig.vulnerabilities[1].product_statuses) :
                 StatusIds(model.vulnerabilities[1], heap)[j]
                    = Narrowed(StatusIds(orig.vulnerabilities[1], origHeap)[j], prod)
           /\ \A j, k \in 1..Len(model.vulnerabilities[1].product_statuses) :
                 j # k => model.vulnerabilities[1].product_statuses[j].product_ids
                            # model.vulnerabilities[1].product_statuses[k].product_ids

\* C6 as stated: if narrowing leaves any ProductStatus entry, the first or a
\* later one, without ids, cvrf_vulnerability_filter_by_product returns -1.
C6_AnyEmptyFails ==
    (pc = "vuln_filtered"
        /\ \E j \in 1..Len(orig.vulnerabilities[1].product_statuses) :
              Narrowed(StatusIds(orig.vulnerabilities[1], origHeap)[j], prod) = <<>>)
        => ret = -1

\* C2: the branch search returns the product id of the first Leaf branch, in
\* depth-first document order over the whole tree, whose name equals P (so
\* the earlier of two Leaf branches sharing the name), and NULL if there is
\* none; every run on the same tree returns that same id.
C2_FirstLeafInDocumentOrder ==
    pc = "searched"
        => out = (IF LeavesNamed(model.tree.branches, cpe) = <<>>
                  THEN NULL
                  ELSE LeavesNamed(model.tree.branches, cpe)[1].product_name.product_id)

C2_Witness ==
    /\ pc = "searched"
    /\ Len(LeavesNamed(model.tree.branches, cpe)) = 2
    /\ LeavesNamed(model.tree.branches, cpe)[1].product_name.product_id = IdQ
    /\ LeavesNamed(model.tree.branches, cpe)[2].product_name.product_id = IdP
    /\ LeavesInOrder(model.tree.branches)[1].branch_name # cpe
    /\ Len(model.tree.branches) = 2
    /\ out = IdQ

(***************************************************************************)
(* C8: cvrf_product_vulnerability_fixed(V, p) is true exactly when p is    *)
(* string-equal to some id of some ProductStatus entry of V, whatever the  *)
(* entry's category (an id that p is only a prefix of does not count), and *)
(* the call leaves V as it was.                                            *)
(***************************************************************************)
C8_FixedIffListedAnywhere ==
    pc = "classified"
        => /\ out = (\E j \in 1..Len(StatusIds(orig.vulnerabilities[1], origHeap)) :
                        \E k \in 1..Len(StatusIds(orig.vulnerabilities[1], origHeap)[j]) :
                            StatusIds(orig.vulnerabilities[1], origHeap)[j][k] = prod)
           /\ model = orig
           /\ heap = origHeap

\* the id is listed only in a known-affected entry, after an entry that does
\* not list it, and the verdict is FIXED
C8_Witness ==
    /\ pc = "classified"
    /\ out = TRUE
    /\ Len(orig.vulnerabilities[1].product_statuses) = 2
    /\ \A j \in 1..2 : orig.vulnerabilities[1].product_statuses[j].type = "KNOWN_AFFECTED"
    /\ StatusIds(orig.vulnerabilities[1], origHeap) = <<<<IdQX>>, <<IdQX, IdPX>>>>
    /\ prod = IdPX

(***************************************************************************)
(* C9: the results document holds, for every Vulnerability of the model in *)
(* order, exactly one Results section with exactly one Result per matched  *)
(* product id in the order of the matched list; each Result carries that   *)
(* ProductID and a VulnerabilityStatus that is "FIXED" or "VULNERABLE".    *)
(***************************************************************************)
VulnerabilityNodes == ChildrenNamed(dom, "Vulnerability")

IsResultFor(node, product_id) ==
    /\ node.name = "Result"
    /\ Texts(node, "ProductID") = <<product_id>>
    /\ Len(ChildrenNamed(node, "VulnerabilityStatus")) = 1
    /\ LastText(node, "VulnerabilityStatus") \in {FIXED, VULNERABLE}
    /\ Len(node.children) = 2

C9_OneResultPerVulnerabilityAndId ==
    pc = "results"
        => /\ Len(VulnerabilityNodes) = Len(model.vulnerabilities)
           /\ \A i \in 1..Len(VulnerabilityNodes) :
                 /\ cvrf_parse_ordinal(VulnerabilityNodes[i]) = model.vulnerabilities[i].ordinal
                 /\ Len(ChildrenNamed(VulnerabilityNodes[i], "Results")) = 1
                 /\ LET results == ChildrenNamed(VulnerabilityNodes[i], "Results")[1].children
                    IN  /\ Len(results) = Len(product_ids)
                        /\ \A k \in 1..Len(results) : IsResultFor(results[k], product_ids[k])

\* two vulnerabilities, two matched ids: the second vulnerability's second
\* Result is FIXED and its first is VULNERABLE
C9_Witness ==
    /\ pc = "results"
    /\ Len(model.vulnerabilities) = 2
    /\ product_ids = <<IdQX, IdPX>>
    /\ Len(VulnerabilityNodes) = 2
    /\ LET results == ChildrenNamed(VulnerabilityNodes[2], "Results")[1].children
       IN  /\ Len(results) = 2
           /\ LastText(results[1], "VulnerabilityStatus") = VULNERABLE
           /\ LastText(results[2], "VulnerabilityStatus") = FIXED

(***************************************************************************)
(* C10: parsing what cvrf_model_to_dom wrote yields a model equal to the   *)
(* serialized one in every field of every entity.                          *)
(***************************************************************************)
C10_RoundTrip ==
    pc = "parsed" => ModelView(model, heap) = ModelView(orig, origHeap)

\* What the round trip does give back: the model with every Remediation
\* date, the Publisher vendor id and a generator date without an engine
\* unset.
WithoutUnwrittenFields(m) ==
    [m EXCEPT !.document.publisher.vendor_id = NULL,
              !.document.tracking.generator_date =
                  IF m.document.tracking.generator_engine = NULL THEN NULL ELSE @,
              !.vulnerabilities =
                  [i \in 1..Len(m.vulnerabilities) |->
                      [m.vulnerabilities[i] EXCEPT !.remediations =
                          [k \in 1..Len(m.vulnerabilities[i].remediations) |->
                              [m.vulnerabilities[i].remediations[k] EXCEPT !.date = NULL]]]]]

RoundTripOfWrittenFields ==
    pc = "parsed"
        => ModelView(model, heap) = WithoutUnwrittenFields(ModelView(orig, origHeap))

(***************************************************************************)
(* C11: decomposing "<prefix>:<package-name>-<evr>" gives the package name *)
(* and the EVR it was put together from; for the identifier                *)
(* "cpe:/o:vendor:platform-a:openssl-1.0.2k-16.el7" that is "openssl" and  *)
(* "1.0.2k-16.el7".  Stated for the calls whose behaviour is defined.      *)
(***************************************************************************)
C11_Decomposition ==
    (/\ pc = "decomposed"
     /\ ~DecompositionUndefined(model.tree, prod))
        => /\ out.rpm_name = orig.rpm_name
           /\ out.evr_format = orig.evr_format

\* The identifier of the example alone
ExampleDecomposition ==
    (/\ pc = "decomposed"
     /\ ~DecompositionUndefined(model.tree, prod)
     /\ prod = ProductIdOf(PrefixCpe, PackageOpenssl, EvrPlain))
        => /\ out.rpm_name = PackageOpenssl
           /\ out.evr_format = EvrPlain

\* What the code gives for the example: the text after the first colon of
\* the identifier is "/o:vendor:...", so the name is empty and the EVR is
\* everything from "o:vendor" on.
ExampleAsDecomposed ==
    (/\ pc = "decomposed"
     /\ ~DecompositionUndefined(model.tree, prod)
     /\ prod = ProductIdOf(PrefixCpe, PackageOpenssl, EvrPlain))
        => /\ out.rpm_name = <<>>
           /\ out.evr_format = SubSeq(prod, 6, Len(prod))

\* The shape the arithmetic fits: a prefix without a colon and an EVR that
\* starts with a one-digit epoch and a colon.
DecompositionOfEpochIds ==
    (/\ pc = "decomposed"
     /\ ~DecompositionUndefined(model.tree, prod)
     /\ cpe = PrefixServer
     /\ orig.evr_format = EvrEpoch)
        => /\ out.rpm_name = orig.rpm_name
           /\ out.evr_format = orig.evr_format

(***************************************************************************)
(* C12: while a synthesis pass runs, the records made so far are one       *)
(* object, one state, one test and one definition for each index 1..it, in *)
(* list order, with the ids "<namespace>:obj:k", ":ste:k", ":tst:k" and    *)
(* ":def:k"; a pass that has returned has made them for every identifier   *)
(* of the list, so the indices are 1..N with no gap and none used twice.   *)
(***************************************************************************)
SyntheticId(kind, k) == <<"oval:org.open-scap.unix", ":", kind, ":", Digits[k + 1]>>

C12_IndicesOneToN ==
    /\ Len(def_model.objects) = it
    /\ Len(def_model.states) = it
    /\ Len(def_model.tests) = it
    /\ Len(def_model.definitions) = it
    /\ \A k \in 1..it :
          /\ def_model.objects[k].id = SyntheticId("obj", k)
          /\ def_model.states[k].id = SyntheticId("ste", k)
          /\ def_model.tests[k].id = SyntheticId("tst", k)
          /\ def_model.definitions[k].id = SyntheticId("def", k)
    /\ pc = "synthesized" => it = Len(product_ids)

C12_Witness ==
    /\ pc = "synthesized"
    /\ product_ids = <<SynthIdCd, SynthIdAb>>
    /\ def_model.definitions[2].id = <<"oval:org.open-scap.unix", ":", "def", ":", "2">>
    /\ def_model.objects[2].id = <<"oval:org.open-scap.unix", ":", "obj", ":", "2">>

(***************************************************************************)
(* C13: the synthesized records are index-aligned and closed under         *)
(* reference: definition k has one criterion, which names test k; test k   *)
(* (check "at least one", existence "at least one exists") names object k  *)
(* and state k; object k carries the decomposed package name; state k is   *)
(* the AND of a pattern match on that name and an EVR "less than" the      *)
(* decomposed EVR; every id a record names is the id of a record made.     *)
(***************************************************************************)
IdsOf(records) == {records[k].id : k \in 1..Len(records)}

C13_ClosedAndAligned ==
    \A k \in 1..it :
        /\ def_model.definitions[k].criteria.type = "OVAL_NODETYPE_CRITERIA"
        /\ Len(def_model.definitions[k].criteria.subnodes) = 1
        /\ def_model.definitions[k].criteria.subnodes[1].type = "OVAL_NODETYPE_CRITERION"
        /\ def_model.definitions[k].criteria.subnodes[1].test = def_model.tests[k].id
        /\ def_model.tests[k].check = "OVAL_CHECK_AT_LEAST_ONE"
        /\ def_model.tests[k].existence = "OVAL_AT_LEAST_ONE_EXISTS"
        /\ def_model.tests[k].object = def_model.objects[k].id
        /\ def_model.tests[k].states = <<def_model.states[k].id>>
        /\ def_model.objects[k].contents = <<[entity_name |-> out[k].rpm_name]>>
        /\ def_model.states[k].operator = "OVAL_OPERATOR_AND"
        /\ Len(def_model.states[k].contents) = 2
        /\ def_model.states[k].contents[1].operation = "OVAL_OPERATION_PATTERN_MATCH"
        /\ def_model.states[k].contents[1].value = out[k].rpm_name
        /\ def_model.states[k].contents[2].operation = "OVAL_OPERATION_LESS_THAN"
        /\ def_model.states[k].contents[2].value = out[k].evr_format
        /\ def_model.definitions[k].criteria.subnodes[1].test \in IdsOf(def_model.tests)
        /\ def_model.tests[k].object \in IdsOf(def_model.objects)
        /\ \A j \in 1..Len(def_model.tests[k].states) :
              def_model.tests[k].states[j] \in IdsOf(def_model.states)
        /\ ~DecompositionUndefined(model.tree, product_ids[k])
              => out[k] = DefinedAttributes(model.tree, product_ids[k])

C13_Witness ==
    /\ pc = "synthesized"
    /\ product_ids = <<SynthIdAb, SynthIdCd>>
    /\ def_model.tests[2].object = <<"oval:org.open-scap.unix", ":", "obj", ":", "2">>
    /\ def_model.objects[2].contents[1].entity_name = <<"c", "d">>
    /\ def_model.states[2].contents[2].value = <<"0", ":", "2">>

(***************************************************************************)
(* C14: the clone that cvrf_model_clone returns equals the model it was    *)
(* made from, field by field through every owned entity and collection:    *)
(* each Vulnerability with its ordinal, title, tracking-system id and      *)
(* name, dates and CVE id, every list with equal contents in equal order.  *)
(***************************************************************************)
C14_CloneEqual ==
    pc = "cloned" => ModelView(model, heap) = ModelView(orig, origHeap)

\* a model without the three fields that cvrf_vulnerability_clone does not
\* copy from their own source
WithoutTrackingAndCve(m) ==
    [m EXCEPT !.vulnerabilities =
        [i \in 1..Len(m.vulnerabilities) |->
            [m.vulnerabilities[i] EXCEPT !.system_id = NULL, !.system_name = NULL,
                                         !.cve_id = NULL]]]

\* Every other field of the clone equals the original's, the ProductStatus
\* id lists are equal lists at new addresses, and the clone's
\* tracking-system id is the original's tracking-system name.
CloneOfOtherFields ==
    pc = "cloned"
        => /\ WithoutTrackingAndCve(ModelView(model, heap))
                = WithoutTrackingAndCve(ModelView(orig, origHeap))
           /\ \A i \in 1..Len(model.vulnerabilities) :
                 /\ model.vulnerabilities[i].system_id = orig.vulnerabilities[i].system_name
                 /\ \A j \in 1..Len(model.vulnerabilities[i].product_statuses) :
                       model.vulnerabilities[i].product_statuses[j].product_ids
                           > Len(origHeap)

(***************************************************************************)
(* C15: in a parsed model a Branch whose Type is Product Family has no     *)
(* ProductName, only child Branches, and a Branch of any other Type has    *)
(* its one ProductName and no child Branches.                              *)
(***************************************************************************)
\* all Branches of a list of Branches, at any depth
RECURSIVE AllBranches(_)
AllBranches(branches) ==
    IF branches = <<>>
    THEN {}
    ELSE {Head(branches)} \cup AllBranches(Head(branches).subbranches)
                          \cup AllBranches(Tail(branches))

\* the Branch was given a ProductName: it no longer holds the empty one of
\* cvrf_branch_new
HasProductName(branch) == branch.product_name # cvrf_product_name_new

C15_ShapeByType ==
    pc = "parsed"
        => \A branch \in AllBranches(model.tree.branches) :
              IF branch.type = "PRODUCT_FAMILY"
              THEN ~HasProductName(branch)
              ELSE HasProductName(branch) /\ branch.subbranches = <<>>

\* What holds of every parsed Branch: it has a ProductName or child
\* Branches, never both, whatever its Type.
ShapeByFirstChild ==
    pc = "parsed"
        => \A branch \in AllBranches(model.tree.branches) :
              HasProductName(branch) <=> branch.subbranches = <<>>

\* A Vendor Branch around a Product Version Branch, as advisories have it
VendorAroundVersion ==
    /\ pc = "parsed"
    /\ dom.children = <<BranchNode(<<"Vendor">>,
                          <<BranchNode(<<"Product Version">>, <<FullProductNameNode>>)>>)>>
    /\ model.tree.branches[1].type = "VENDOR"
    /\ ~HasProductName(model.tree.branches[1])
    /\ Len(model.tree.branches[1].subbranches) = 1

(***************************************************************************)
(* C16: the output of the serializer and of the results assembler holds no *)
(* empty wrapper: every container element has a child, and a container of  *)
(* a Vulnerability (the Results section included) is there only if the     *)
(* list behind it is not empty.                                            *)
(***************************************************************************)
\* every element of the tree under (and with) a node
RECURSIVE AllNodes(_)
AllNodes(node) ==
    {node} \cup UNION {AllNodes(node.children[k]) : k \in 1..Len(node.children)}

ContainerTags ==
    {"Notes", "DocumentNotes", "Threats", "Remediations", "RevisionHistory",
     "ProductStatuses", "CVSSScoreSets", "Involvements", "Acknowledgments",
     "References", "DocumentReferences", "ProductGroups", "Results"}

\* the container tags of a Vulnerability with the list behind each
VulnerabilityContainers(vuln) ==
    {<<"Notes", vuln.notes>>, <<"Involvements", vuln.involvements>>,
     <<"ProductStatuses", vuln.product_statuses>>, <<"Threats", vuln.threats>>,
     <<"CVSSScoreSets", vuln.score_sets>>, <<"Remediations", vuln.remediations>>,
     <<"References", vuln.references>>, <<"Acknowledgments", vuln.acknowledgments>>,
     <<"Results", product_ids>>}

Emitted == pc \in {"serialized", "results"}

C16_NoEmptyWrapper ==
    Emitted
        => /\ \A node \in AllNodes(dom) :
                 node.name \in ContainerTags => node.children # <<>>
           /\ \A i \in 1..Len(model.vulnerabilities) :
                 \A c \in VulnerabilityContainers(model.vulnerabilities[i]) :
                     ChildrenNamed(VulnerabilityNodes[i], c[1]) # <<>> => c[2] # <<>>

\* The wrappers that do come out empty: the Results section when the session
\* has no product id, and Notes when no Note of the list has contents.
EmptyWrappersAreResultsOrNotes ==
    Emitted
        => \A i \in 1..Len(model.vulnerabilities) :
              \A node \in AllNodes(VulnerabilityNodes[i]) :
                  (node.name \in ContainerTags /\ node.children = <<>>)
                      => \/ node.name = "Results" /\ product_ids = <<>>
                         \/ /\ node.name = "Notes"
                            /\ model.vulnerabilities[i].notes # <<>>
                            /\ \A k \in 1..Len(model.vulnerabilities[i].notes) :
                                  model.vulnerabilities[i].notes[k].contents = NULL

\* The results document of a session without product ids
EmptyResultsSection ==
    /\ pc = "results"
    /\ product_ids = <<>>
    /\ Len(model.vulnerabilities) = 1
    /\ ChildrenNamed(VulnerabilityNodes[1], "Results") = <<xmlNewNode("Results")>>

(***************************************************************************)
(* C17: a text field that is not set gives no element at all: the output   *)
(* has no DocumentTitle, DocumentType, DocumentDistribution or             *)
(* AggregateSeverity for an unset field of the model, no Title, ID,        *)
(* DiscoveryDate, ReleaseDate or CVE for an unset field of a               *)
(* Vulnerability, and no text element anywhere that has no text.           *)
(***************************************************************************)
TextTags ==
    {"DocumentTitle", "DocumentType", "DocumentDistribution", "AggregateSeverity",
     "Title", "ID", "DiscoveryDate", "ReleaseDate", "CVE", "Description", "URL",
     "Entitlement", "Number", "Date", "Version", "InitialReleaseDate",
     "CurrentReleaseDate", "Engine"}

\* the text elements of a Vulnerability with the field behind each
VulnerabilityTexts(vuln) ==
    {<<"Title", vuln.title>>, <<"ID", vuln.system_id>>,
     <<"DiscoveryDate", vuln.discovery_date>>, <<"ReleaseDate", vuln.release_date>>,
     <<"CVE", vuln.cve_id>>}

ModelTexts ==
    {<<"DocumentTitle", model.doc_title>>, <<"DocumentType", model.doc_type>>,
     <<"DocumentDistribution", model.document.doc_distribution>>,
     <<"AggregateSeverity", model.document.aggregate_severity>>}

C17_AbsentFieldsOmitted ==
    Emitted
        => /\ \A t \in ModelTexts : t[2] = NULL => ChildrenNamed(dom, t[1]) = <<>>
           /\ \A i \in 1..Len(model.vulnerabilities) :
                 \A t \in VulnerabilityTexts(model.vulnerabilities[i]) :
                     t[2] = NULL => ChildrenNamed(VulnerabilityNodes[i], t[1]) = <<>>
           /\ \A node \in AllNodes(dom) : node.name \in TextTags => node.content # NULL

\* The one text element that comes out without text is the DocumentTitle of
\* a model without title; every other unset field gives no element.
OnlyTitleEmittedEmpty ==
    Emitted
        => /\ \A t \in ModelTexts :
                 (t[2] = NULL /\ t[1] # "DocumentTitle") => ChildrenNamed(dom, t[1]) = <<>>
           /\ \A i \in 1..Len(model.vulnerabilities) :
                 \A t \in VulnerabilityTexts(model.vulnerabilities[i]) :
                     t[2] = NULL => ChildrenNamed(VulnerabilityNodes[i], t[1]) = <<>>
           /\ \A node \in AllNodes(dom) :
                 (node.name \in TextTags /\ node.content = NULL)
                     => (node.name = "DocumentTitle" /\ model.doc_title = NULL)
           /\ Len(ChildrenNamed(dom, "DocumentTitle")) = 1

(***************************************************************************)
(* C18: in cvrf_export_results a failed platform filter makes the call     *)
(* return -1 with no rule synthesized, no results document built and       *)
(* nothing saved; rules, results document and saved file exist only after  *)
(* a successful filter of the same model, and are made from the filtered   *)
(* model.                                                                  *)
(***************************************************************************)
FilterOfOrig == cvrf_model_filter_by_cpe(orig, cpe, origHeap)

C18_FailedFilterStopsExport ==
    /\ (pc \in {"exported", "crashed"} /\ FilterOfOrig.ret = -1) =>
          /\ pc = "exported"
          /\ ret = -1
          /\ product_ids = <<>>
          /\ def_model = oval_definition_model_new
          /\ dom = Nil
          /\ saved = Nil
    /\ reader = NoReader
    /\ (\/ pc = "crashed"
        \/ product_ids # <<>>
        \/ def_model # oval_definition_model_new
        \/ dom # Nil
        \/ saved # Nil) =>
          /\ FilterOfOrig.ret = 0
          /\ ModelView(model, heap) = ModelView(FilterOfOrig.model, FilterOfOrig.heap)
          /\ dom # Nil => dom = cvrf_model_results_to_dom(model, product_ids, heap)
          /\ saved # Nil => saved = dom

\* a failed filter has returned -1 from the export
C18_Witness ==
    /\ pc = "exported"
    /\ FilterOfOrig.ret = -1
    /\ orig.tree.relationships # <<>>
    /\ ret = -1

\* an export that went through: rules synthesized, document built and saved
ExportWentThrough ==
    /\ pc = "exported"
    /\ ret = 0
    /\ Len(def_model.definitions) > 0
    /\ saved # Nil

(***************************************************************************)
(* C19: in the document cvrf_index_get_results_source returns, the Result  *)
(* entries under every Vulnerability of the k-th Model name exactly the    *)
(* product ids matched for the k-th Model (the embedded ProductName ids of *)
(* its surviving Relationships; none if its filter failed); ids matched    *)
(* for an earlier Model do not appear under a later one.                   *)
(***************************************************************************)
\* the product ids matched for a Model as it was imported
MatchedIds(m) ==
    LET t == cvrf_product_tree_filter_by_cpe(m.tree, cpe)
    IN  IF t.ret = -1
        THEN <<>>
        ELSE [i \in 1..Len(t.tree.relationships) |->
                 t.tree.relationships[i].product_name.product_id]

\* the ProductID texts of the Result entries of a Vulnerability node
ResultProductIds(vuln_node) ==
    LET results == ChildrenNamed(vuln_node, "Results")[1].children
    IN  [r \in 1..Len(results) |-> ChildrenNamed(results[r], "ProductID")[1].content]

VulnerabilityNodesOf(model_node) == ChildrenNamed(model_node, "Vulnerability")

C19_ResultsNameOwnIds ==
    pc = "indexed" =>
        \A k \in 1..Len(dom.children) :
            \A v \in 1..Len(VulnerabilityNodesOf(dom.children[k])) :
                ResultProductIds(VulnerabilityNodesOf(dom.children[k])[v]) = MatchedIds(orig[k])

\* what the code does: the ids of all Models up to the k-th, in order
ResultsNameIdsSoFar ==
    pc = "indexed" =>
        /\ Len(dom.children) = Len(orig)
        /\ \A k \in 1..Len(dom.children) :
            /\ Len(VulnerabilityNodesOf(dom.children[k])) = Len(orig[k].vulnerabilities)
            /\ \A v \in 1..Len(VulnerabilityNodesOf(dom.children[k])) :
                  ResultProductIds(VulnerabilityNodesOf(dom.children[k])[v]) =
                      Flatten([j \in 1..k |-> MatchedIds(orig[j])])

\* a Model whose filter failed has a Result for an id of the Model before it
\* (both Models hold the package Leaf, so the synthesis is defined)
EarlierIdsUnderFailedModel ==
    /\ pc = "indexed"
    /\ Len(orig) = 2
    /\ orig[2].tree.branches = orig[1].tree.branches
    /\ MatchedIds(orig[1]) # <<>>
    /\ cvrf_product_tree_filter_by_cpe(orig[2].tree, cpe).ret = -1
    /\ Len(VulnerabilityNodesOf(dom.children[2])) = 1
    /\ ResultProductIds(VulnerabilityNodesOf(dom.children[2])[1]) = MatchedIds(orig[1])

(***************************************************************************)
(* C20: every entity routine, called with the cursor on the opening tag of *)
(* its entity, returns with the cursor on the first node after the         *)
(* entity's subtree, that is, just past its closing tag; the same for all  *)
(* kinds of entity.                                                        *)
(***************************************************************************)
\* where the closing tag of the element opened at s is (s for an empty one)
ClosingTag(rd, s) ==
    IF rd[s].empty
    THEN s
    ELSE CHOOSE j \in (s + 1)..Len(rd) :
             /\ rd[j].type = "END_ELEMENT"
             /\ rd[j].depth = rd[s].depth
             /\ \A i \in (s + 1)..(j - 1) :
                   ~(rd[i].type = "END_ELEMENT" /\ rd[i].depth = rd[s].depth)

AfterSubtree(rd, s) == ClosingTag(rd, s) + 1

EntityTag == orig.nodes[orig.pos].name

C20_CursorPastSubtree ==
    pc \in {"parsed", "hung"} => reader.pos = AfterSubtree(orig.nodes, orig.pos)

\* the routines that scan text fields only and end with one more NextNode do
\* so for an entity with a closing tag
LoopRoutinesPastClosingTag ==
    (/\ pc \in {"parsed", "hung"}
     /\ EntityTag \in {"Remediation", "ScoreSet", "Threat", "Group", "Acknowledgment",
                       "Reference", "Revision", "Note"}
     /\ ~orig.nodes[orig.pos].empty) =>
        reader.pos = AfterSubtree(orig.nodes, orig.pos)

\* cvrf_product_status_parse and cvrf_doc_tracking_parse stop on the closing tag
StopsOnClosingTag ==
    (/\ pc \in {"parsed", "hung"}
     /\ EntityTag \in {"Status", "DocumentTracking"}
     /\ ~orig.nodes[orig.pos].empty) =>
        reader.pos = ClosingTag(orig.nodes, orig.pos)

\* a ProductStatus with one ProductID has been read and the cursor is on </Status>
StatusLeftOnClosingTag ==
    /\ pc = "parsed"
    /\ EntityTag = "Status"
    /\ ~orig.nodes[orig.pos].empty
    /\ reader.nodes[reader.pos].type = "END_ELEMENT"
    /\ reader.nodes[reader.pos].name = "Status"
    /\ reader.pos = ClosingTag(orig.nodes, orig.pos)

(***************************************************************************)
(* The items of a container.  cvrf_parse_container appends what each item  *)
(* routine returns; an item is named here by the position of the opening   *)
(* tag the routine was called on.                                          *)
(***************************************************************************)
\* the items oscap_list_add appended in the while loop of
\* cvrf_parse_container, the cursor being at p when the loop tests its
\* condition: an empty Note is NULL, is not added and ends the loop
RECURSIVE ContainerCalls(_, _, _)
ContainerCalls(rd, p, tag) ==
    IF p = Hang \/ tag = "" \/ xmlTextReaderConstLocalName(rd, p) # tag THEN <<>>
    ELSE IF tag = "Note" /\ xmlTextReaderIsEmptyElement_cursor(rd, p) THEN <<>>
    ELSE <<p>> \o ContainerCalls(rd, xmlTextReaderNextNode(rd, ItemParse(rd, p, tag)), tag)

\* the list cvrf_parse_container has filled when called with the cursor at p
cvrf_parse_container_items(rd, p) ==
    ContainerCalls(rd,
                   IF ItemTagOf(xmlTextReaderConstLocalName(rd, p))
                          \notin {"Vulnerability", "CWE"}
                   THEN xmlTextReaderNextElement(rd, p)
                   ELSE p,
                   ItemTagOf(xmlTextReaderConstLocalName(rd, p)))

(***************************************************************************)
(* SpecContainer: cvrf_parse_container on the opening tag of a container   *)
(* that holds up to MaxItems well-formed items, written with or without    *)
(* whitespace between the elements and followed by one more element.       *)
(***************************************************************************)
\* the kinds of EntitySamples that are items of a wrapping container
ContainerKinds == {kind \in EntitySamples : ItemTagOf(kind[2]) = kind[1]}

\* <Vulnerability> or <cvrfdoc> around the container and the element after it
ContainerReader(kind, items, ws) ==
    [nodes |-> NodesOf(Elem(IF kind[3] = 3 THEN "Vulnerability" ELSE "cvrfdoc", NULL,
                            <<Elem(kind[2], NULL, items), TextElem("CVE")>>),
                       kind[3] - 2, ws),
     pos |-> IF ws THEN 3 ELSE 2]

InitContainer ==
    /\ \E kind \in ContainerKinds :
          \E items \in SeqsUpTo(kind[4], MaxItems), ws \in BOOLEAN :
             /\ reader = ContainerReader(kind, items, ws)
             /\ it = Len(items)
    /\ model = cvrf_model_new
    /\ heap = <<>>
    /\ cpe = NULL
    /\ prod = NULL
    /\ pc = "start"
    /\ ret = 0
    /\ orig = reader
    /\ origHeap = heap
    /\ vrets = <<>>
    /\ product_ids = <<>>
    /\ out = <<>>
    /\ dom = Nil
    /\ def_model = oval_definition_model_new
    /\ index = <<>>
    /\ saved = Nil

\* cvrf_parse_container(reader, list): out is the list, reader.pos the cursor
\* it leaves
ParseContainer ==
    /\ pc = "start"
    /\ out' = cvrf_parse_container_items(reader.nodes, reader.pos)
    /\ reader' = [reader EXCEPT !.pos = cvrf_parse_container_cursor(reader.nodes, reader.pos)]
    /\ pc' = IF reader'.pos = Hang THEN "hung" ELSE "parsed"
    /\ UNCHANGED <<model, heap, cpe, prod, ret, orig, origHeap, vrets, product_ids, dom,
                   def_model, index, it, saved>>

NextContainer == ParseContainer

SpecContainer == InitContainer /\ [][NextContainer]_vars

(***************************************************************************)
(* The items of a container.                                               *)
(***************************************************************************)
\* the opening tags of the items in the container the cursor was on, in
\* document order
ItemOpenings ==
    LET rd == orig.nodes
        tag == ItemTagOf(rd[orig.pos].name)
    IN  SelectSeq([i \in 1..Len(rd) |-> i],
                  LAMBDA i : /\ i > orig.pos
                             /\ i < ClosingTag(rd, orig.pos)
                             /\ rd[i].type = "ELEMENT"
                             /\ rd[i].name = tag
                             /\ rd[i].depth = rd[orig.pos].depth + 1)

\* whitespace is written between the elements of the document
Indented == \E i \in 1..Len(orig.nodes) : orig.nodes[i].type = "SIGNIFICANT_WHITESPACE"

\* the end of the container: its closing tag, or a node after it with
\* nothing but whitespace in between
EndOfContainer ==
    LET rd == orig.nodes
        closing == ClosingTag(rd, orig.pos)
    IN  {c \in closing..(Len(rd) + 1) :
            \A i \in (closing + 1)..(c - 1) : rd[i].type = "SIGNIFICANT_WHITESPACE"}

\* C21: for a container of N well-formed items, with or without whitespace
\* between them, cvrf_parse_container returns, has appended exactly the N
\* items in document order, and leaves the cursor at the end of the
\* container.
C21_ContainerItemsExactly ==
    pc # "start"
        => /\ pc = "parsed"
           /\ out = ItemOpenings
           /\ reader.pos \in EndOfContainer

\* What the code does: the items it appends are items of the container, in
\* document order, starting with the first one; it may stop before the last.
ContainerItemsArePrefix ==
    pc # "start"
        => /\ pc = "parsed"
           /\ Len(out) <= Len(ItemOpenings)
           /\ out = SubSeq(ItemOpenings, 1, Len(out))

\* Items whose routine ends with NextNode are all appended when whitespace
\* separates them; Status items, whose routine stops on the closing tag, are
\* all appended when nothing separates them.  Involvement, whose routine
\* stops inside the item, is left out.
ItemsAppendedWhenSpacingFits ==
    (/\ pc # "start"
     /\ orig.nodes[orig.pos].name # "Involvements"
     /\ Indented <=> orig.nodes[orig.pos].name # "ProductStatuses")
        => /\ out = ItemOpenings
           /\ reader.pos \in EndOfContainer

\* with more than one item and the other spacing, only the first item is
\* appended and the cursor is left inside the container
OneItemWhenSpacingDoesNotFit ==
    (/\ pc # "start"
     /\ Len(ItemOpenings) > 1
     /\ ~(Indented <=> orig.nodes[orig.pos].name # "ProductStatuses"))
        => /\ Len(out) = 1
           /\ reader.pos < ClosingTag(orig.nodes, orig.pos)

\* two Threat items with nothing between them: the second one is skipped
SecondItemSkipped ==
    /\ pc = "parsed"
    /\ orig.nodes[orig.pos].name = "Threats"
    /\ ~Indented
    /\ Len(ItemOpenings) = 2
    /\ Len(out) = 1

(***************************************************************************)
(* cvrf_model_parse and cvrf_document_parse on the reader, one turn of the *)
(* loop of cvrf_document_parse at a time.  pc is "start" before the call,  *)
(* "document" while the loop of cvrf_document_parse runs, "returned" after *)
(* the return of cvrf_model_parse and "hung" once a routine that was       *)
(* called keeps reading at the end of the input.                           *)
(***************************************************************************)
\* the if-chain in the loop of cvrf_document_parse, on an opening tag
DocumentField(rd, p) ==
    CASE rd[p].name = "DocumentPublisher" -> cvrf_doc_publisher_parse_cursor(rd, p)
      [] rd[p].name = "DocumentTracking" -> cvrf_doc_tracking_parse_cursor(rd, p)
      [] rd[p].name \in {"DocumentNotes", "DocumentReferences", "Acknowledgments"} ->
             cvrf_parse_container_cursor(rd, p)
      [] rd[p].name \in {"DocumentDistribution", "AggregateSeverity"} ->
             oscap_element_string_copy_cursor(rd, p)
      [] OTHER -> p

\* one turn of the loop of cvrf_document_parse, the name under the cursor
\* not being ProductTree
DocumentTurn(rd, p) ==
    IF xmlTextReaderNodeType(rd, p) # "ELEMENT"
    THEN xmlTextReaderNextNode(rd, p)
    ELSE xmlTextReaderNextNode(rd, DocumentField(rd, p))

\* cvrf_model_parse up to the call of cvrf_document_parse
ModelHead(rd, p) ==
    cvrf_parse_element_cursor(rd,
        cvrf_parse_element_cursor(rd, xmlTextReaderNextElement(rd, p),
                                  "DocumentTitle", TRUE),
        "DocumentType", TRUE)

\* cvrf_model_parse after cvrf_document_parse has returned on ProductTree
ModelRest(rd, p) ==
    LET q == IF xmlTextReaderConstLocalName(rd, p) = "ProductTree"
             THEN cvrf_product_tree_parse_cursor(rd, p)
             ELSE p
    IN  IF q = Hang THEN Hang ELSE cvrf_parse_container_cursor(rd, q)

(***************************************************************************)
(* SpecParse: cvrf_model_parse on a node stream: a cvrfdoc element with up *)
(* to MaxParts document-level elements, with or without a ProductTree and  *)
(* a Vulnerability, with or without whitespace, whole or cut short.        *)
(* Where a call leaves the cursor depends on the stream and on the         *)
(* position only: out holds, for every position, where ModelHead, a turn   *)
(* of the loop (DocumentTurn) and ModelRest leave the cursor when called   *)
(* there, and the steps read it.                                           *)
(***************************************************************************)
DocumentParts ==
    {TextElem("DocumentTitle"), TextElem("DocumentType"),
     Elem("DocumentPublisher", NULL, <<TextElem("ContactDetails")>>),
     Elem("DocumentTracking", NULL, <<TextElem("Version")>>),
     Elem("DocumentNotes", NULL, <<TextElem("Note")>>),
     TextElem("DocumentDistribution")}

TreeParts == {<<>>, <<Elem("ProductTree", NULL, <<LeafElem>>)>>}
VulnerabilityParts == {<<>>, <<Elem("Vulnerability", NULL, <<TextElem("Title")>>)>>}

\* how many nodes are missing at the end of the stream
Cuts == {0, 1, 4}

InitParse ==
    /\ \E parts \in SeqsUpTo(DocumentParts, MaxParts), tree \in TreeParts,
          vulns \in VulnerabilityParts, ws \in BOOLEAN, cut \in Cuts,
          root \in {"cvrfdoc", "Index"} :
          LET nodes == NodesOf(Elem(root, NULL, parts \o tree \o vulns), 0, ws)
          IN  /\ cut < Len(nodes)
              /\ reader = [nodes |-> SubSeq(nodes, 1, Len(nodes) - cut), pos |-> 1]
    /\ out = [ModelHead |-> ModelHead(reader.nodes, reader.pos),
              DocumentTurn |-> [p \in 1..(Len(reader.nodes) + 1) |->
                                   DocumentTurn(reader.nodes, p)],
              ModelRest |-> [p \in 1..(Len(reader.nodes) + 1) |->
                                ModelRest(reader.nodes, p)]]
    /\ model = cvrf_model_new
    /\ heap = <<>>
    /\ cpe = NULL
    /\ prod = NULL
    /\ pc = "start"
    /\ ret = 0
    /\ orig = reader
    /\ origHeap = heap
    /\ vrets = <<>>
    /\ product_ids = <<>>
    /\ dom = Nil
    /\ def_model = oval_definition_model_new
    /\ index = <<>>
    /\ it = 0
    /\ saved = Nil

\* the cursor moves to p, or the routine that was called never returns
CursorTo(p, then) ==
    /\ reader' = [reader EXCEPT !.pos = p]
    /\ pc' = IF p = Hang THEN "hung" ELSE then
    /\ UNCHANGED <<model, heap, cpe, prod, orig, origHeap, vrets, product_ids, out,
                   dom, def_model, index, it, saved>>

\* cvrf_model_parse returns NULL when the cursor is not on <cvrfdoc>
ModelParseRejects ==
    /\ pc = "start"
    /\ \/ xmlTextReaderConstLocalName(reader.nodes, reader.pos) # "cvrfdoc"
       \/ xmlTextReaderNodeType(reader.nodes, reader.pos) # "ELEMENT"
    /\ ret' = -1
    /\ pc' = "returned"
    /\ UNCHANGED <<model, heap, cpe, prod, orig, origHeap, vrets, product_ids, out,
                   dom, def_model, index, it, saved, reader>>

\* cvrf_model_parse reads the title and the type and calls cvrf_document_parse
ModelParseEnters ==
    /\ pc = "start"
    /\ xmlTextReaderConstLocalName(reader.nodes, reader.pos) = "cvrfdoc"
    /\ xmlTextReaderNodeType(reader.nodes, reader.pos) = "ELEMENT"
    /\ ret' = ret
    /\ CursorTo(out.ModelHead, "document")

\* one turn of the loop of cvrf_document_parse
DocumentLoopTurn ==
    /\ pc = "document"
    /\ xmlTextReaderConstLocalName(reader.nodes, reader.pos) # "ProductTree"
    /\ ret' = ret
    /\ CursorTo(out.DocumentTurn[reader.pos], "document")

\* the loop ends on ProductTree; cvrf_model_parse parses the tree and the
\* vulnerabilities and returns the model
DocumentLoopEnds ==
    /\ pc = "document"
    /\ xmlTextReaderConstLocalName(reader.nodes, reader.pos) = "ProductTree"
    /\ ret' = 0
    /\ CursorTo(out.ModelRest[reader.pos], "returned")

NextParse == ModelParseRejects \/ ModelParseEnters \/ DocumentLoopTurn \/ DocumentLoopEnds

SpecParse == InitParse /\ [][NextParse]_vars

\* the program goes on as long as it has a step that changes its state
SpecParseLive == SpecParse /\ WF_vars(NextParse)

(***************************************************************************)
(* Termination of parsing.                                                 *)
(***************************************************************************)
HasProductTree ==
    \E i \in 1..Len(orig.nodes) :
        orig.nodes[i].name = "ProductTree" /\ orig.nodes[i].type # "TEXT"

\* C22: on every finite node stream cvrf_model_parse comes to a return, be
\* there a ProductTree element or not and be the closing tags there or not.
C22_ParsingTerminates == <>(pc = "returned")

\* A stream that starts with <cvrfdoc> and has no ProductTree tag: the loop
\* of cvrf_document_parse is never left, so cvrf_model_parse never returns.
NoProductTreeNoReturn ==
    (orig.nodes[1].name = "cvrfdoc" /\ ~HasProductTree) => pc # "returned"

\* at the end of the input a turn of the loop leaves the cursor where it is
LoopsAtEndOfInput ==
    (pc = "document" /\ AtEnd(reader.nodes, reader.pos))
        => /\ ENABLED DocumentLoopTurn
           /\ DocumentTurn(reader.nodes, reader.pos) = reader.pos

\* a whole, indented document with a ProductTree and a Vulnerability is
\* parsed to the end
WholeDocumentReturns ==
    /\ pc = "returned"
    /\ ret = 0
    /\ HasProductTree
    /\ orig.nodes[Len(orig.nodes)].type = "END_ELEMENT"
    /\ orig.nodes[Len(orig.nodes)].name = "cvrfdoc"
    /\ \E i \in 1..Len(orig.nodes) : orig.nodes[i].name = "Vulnerability"

\* the loop of cvrf_document_parse at the end of the input
StuckAtEndOfInput == pc = "document" /\ AtEnd(reader.nodes, reader.pos)

\* the stream is whole: it ends with the closing tag of its root
WholeStream ==
    /\ orig.nodes[Len(orig.nodes)].type = "END_ELEMENT"
    /\ orig.nodes[Len(orig.nodes)].depth = 0

\* a call on a whole stream that has a ProductTree tag does not stay in the
\* loop of cvrf_document_parse for ever
WholeStreamWithTreeLeavesLoop ==
    (WholeStream /\ HasProductTree /\ orig.nodes[1].name = "cvrfdoc")
        => ~StuckAtEndOfInput

\* a routine called by the loop or after it never returns
CalledRoutineNeverReturns == pc = "hung"


(***************************************************************************)
(* C23: for an identifier "<platform>:<name>-<e>:<vr>" whose platform and  *)
(* name hold no colon, whose name is not empty and whose <e> is one        *)
(* character, parse_rpm_attributes_from_cvrf_product_id returns, with      *)
(* package name exactly <name> and EVR exactly "<e>:<vr>".                 *)
(***************************************************************************)
EpochShape ==
    /\ prod = ProductIdOf(cpe, orig.rpm_name, orig.evr_format)
    /\ strchr(cpe, ":") = 0
    /\ strchr(orig.rpm_name, ":") = 0
    /\ orig.rpm_name # <<>>
    /\ strchr(orig.evr_format, ":") = 2

C23_EpochIdSplit ==
    (pc = "decomposed" /\ EpochShape)
        => /\ ~out.crashed
           /\ out.rpm_name = orig.rpm_name
           /\ out.evr_format = orig.evr_format

\* The split itself is as stated whenever the name lookup of line 314 finds
\* a top-level Product Version branch.
EpochIdSplitWhenNameFound ==
    (/\ pc = "decomposed"
     /\ EpochShape
     /\ get_rpm_name_from_cvrf_product_id(model.tree, prod) # NULL)
        => /\ ~out.crashed
           /\ out.rpm_name = orig.rpm_name
           /\ out.evr_format = orig.evr_format

\* an identifier of the shape, decomposed under a tree that lists the
\* package inside a Product Family branch only
EpochIdWithoutTopLevelBranch ==
    /\ pc = "decomposed"
    /\ EpochShape
    /\ model.tree.branches # <<>>
    /\ get_rpm_name_from_cvrf_product_id(model.tree, prod) = NULL
    /\ out.crashed

EpochIdSplitReached ==
    /\ pc = "decomposed"
    /\ prod = ProductIdOf(PrefixServer, PackageOpenssl, EvrEpoch)
    /\ out.rpm_name = PackageOpenssl
    /\ out.evr_format = EvrEpoch


(***************************************************************************)
(* C25: the display-name lookup resolves to the ProductName text of the    *)
(* first Leaf branch of the tree, at any nesting depth in document order,  *)
(* whose product id is a suffix of the identifier, and yields a defined    *)
(* name whenever the tree holds such a Leaf.                               *)
(***************************************************************************)
SuffixLeaves(branches, product_id) ==
    SelectSeq(LeavesInOrder(branches),
              LAMBDA b : /\ b.product_name.product_id # NULL
                         /\ oscap_str_endswith(product_id, b.product_name.product_id))

C25_NameOfFirstSuffixLeaf ==
    (pc = "decomposed" /\ SuffixLeaves(model.tree.branches, prod) # <<>>)
        => /\ get_rpm_name_from_cvrf_product_id(model.tree, prod)
                = Head(SuffixLeaves(model.tree.branches, prod)).product_name.cpe
           /\ ~out.crashed
           /\ out.full_package_name
                = Head(SuffixLeaves(model.tree.branches, prod)).product_name.cpe

\* What the loop of lines 295-305 gives: the name of the first matching
\* Product Version branch of the top level, and it looks no deeper.
NameOfFirstTopLevelBranch ==
    pc = "decomposed"
        => LET top == SelectSeq(model.tree.branches,
                         LAMBDA b : /\ b.type = "PRODUCT_VERSION"
                                    /\ oscap_str_endswith(prod, b.product_name.product_id))
           IN  IF top = <<>>
               THEN get_rpm_name_from_cvrf_product_id(model.tree, prod) = NULL
               ELSE /\ get_rpm_name_from_cvrf_product_id(model.tree, prod)
                         = Head(top).product_name.cpe
                    /\ out.full_package_name = Head(top).product_name.cpe

\* the package is listed inside a Product Family branch only
NestedLeafNotFound ==
    /\ pc = "decomposed"
    /\ SuffixLeaves(model.tree.branches, prod) # <<>>
    /\ get_rpm_name_from_cvrf_product_id(model.tree, prod) = NULL


(***************************************************************************)
(* Identifiers of any shape handed to the decomposition: a prefix, a colon *)
(* and a rest that holds its next colon at offset 0, 1, 2 or later, or     *)
(* none at all.  The tree either lists the rest as a Product Version       *)
(* branch of the top level, so that the name lookup succeeds, or is empty. *)
(***************************************************************************)
SplitPrefixes == {PrefixServer, <<"7">>}
SplitRests ==
    {<<>>, <<"a">>, <<":">>, <<":", "1">>, <<"a", ":">>, <<"a", ":", "1">>,
     <<"a", "b">>, <<"a", "b", ":">>, <<"a", "-", ":", "1">>,
     <<"a", "-", "0", ":", "1">>, <<"a", "b", "-", "1">>,
     <<"a", "b", "-", "0", ":", "1", ":", "2">>}

InitSplit ==
    /\ \E prefix \in SplitPrefixes, rest \in SplitRests :
          /\ prod = prefix \o <<":">> \o rest
          /\ cpe = prefix
          /\ orig = [rpm_name |-> <<>>, evr_format |-> rest]
          /\ \E branches \in {<<>>, <<LeafBranch(rest, rest)>>} :
                model = [cvrf_model_new EXCEPT !.tree.branches = branches]
    /\ heap = <<>>
    /\ origHeap = <<>>
    /\ pc = "start"
    /\ ret = 0
    /\ vrets = <<>>
    /\ product_ids = <<>>
    /\ out = cvrf_rpm_attributes_new
    /\ dom = Nil
    /\ def_model = oval_definition_model_new
    /\ index = <<>>
    /\ it = 0
    /\ saved = Nil
    /\ reader = NoReader

SpecSplit == InitSplit /\ [][NextRpm]_vars

(***************************************************************************)
(* C24: the decomposition validates no shape.  When the text after the     *)
(* first colon has its next colon at offset 0 or 1, or has no colon and is *)
(* shorter than 2, index-1 or index-2 wraps below zero in unsigned         *)
(* arithmetic and the EVR start or the name terminator lies outside the    *)
(* buffer; when the next colon is at offset 2 or more, both lie inside.    *)
(***************************************************************************)
\* the offset of the next colon in the text after the first colon, -1 if none
NextColonOffset == strchr(PackageOf(prod), ":") - 1

EvrStart == UnsignedSub(it, 1)
NameTerminator == UnsignedSub(it, 2)

C24_OffsetsWrapBelowTwo ==
    (pc = "decomposed" /\ strchr(prod, ":") # 0)
        => /\ (\/ NextColonOffset \in {0, 1}
               \/ NextColonOffset = -1 /\ Len(PackageOf(prod)) < 2)
                 => /\ \/ ~InBuffer(EvrStart, PackageOf(prod))
                       \/ ~InBuffer(NameTerminator, PackageOf(prod))
                    /\ NameTerminator.hi = Half - 1
                    /\ DecompositionUndefined(model.tree, prod)
           /\ NextColonOffset >= 2
                 => /\ InBuffer(EvrStart, PackageOf(prod))
                    /\ InBuffer(NameTerminator, PackageOf(prod))
                    /\ EvrStart.lo = NextColonOffset - 1
                    /\ NameTerminator.lo = NextColonOffset - 2

\* the next colon at offset 1: the EVR starts at the first byte, the
\* terminator is written 2^32 - 1 bytes further
C24_Witness ==
    /\ pc = "decomposed"
    /\ NextColonOffset = 1
    /\ EvrStart = [hi |-> 0, lo |-> 0]
    /\ NameTerminator = [hi |-> Half - 1, lo |-> Half - 1]

\* the next colon at offset 0: both offsets have wrapped
BothOffsetsWrapped ==
    /\ pc = "decomposed"
    /\ NextColonOffset = 0
    /\ ~InBuffer(EvrStart, PackageOf(prod))
    /\ ~InBuffer(NameTerminator, PackageOf(prod))

\* the next colon at offset 2 or more, the call returned with its split
OffsetsInsideReached ==
    /\ pc = "decomposed"
    /\ NextColonOffset >= 2
    /\ ~out.crashed
    /\ out.evr_format # <<>>

\* No colon after the first and two characters or more: the offsets stay
\* inside as well, and the rest is cut before its last two characters.
NoColonCutsTheEnd ==
    (/\ pc = "decomposed"
     /\ strchr(prod, ":") # 0
     /\ NextColonOffset = -1
     /\ Len(PackageOf(prod)) >= 2)
        => /\ InBuffer(EvrStart, PackageOf(prod))
           /\ InBuffer(NameTerminator, PackageOf(prod))


(***************************************************************************)
(* C27: when cvrf_vulnerability_filter_by_product returns -1 the           *)
(* Vulnerability is as it was before the call: every ProductStatus entry   *)
(* holds the list it held, with the ids it had; no entry was narrowed      *)
(* before the failure.                                                     *)
(***************************************************************************)
C27_FailureLeavesVulnerability ==
    (pc = "vuln_filtered" /\ ret = -1)
        => /\ model = orig
           /\ \A a \in 1..Len(origHeap) : heap[a] = origHeap[a]
           /\ StatusIds(model.vulnerabilities[1], heap)
                = StatusIds(orig.vulnerabilities[1], origHeap)

\* the first entry keeps nothing, the second would have kept an id
C27_Witness ==
    /\ pc = "vuln_filtered"
    /\ ret = -1
    /\ Len(orig.vulnerabilities[1].product_statuses) = 2
    /\ StatusIds(orig.vulnerabilities[1], origHeap) = <<<<IdQX>>, <<IdPX>>>>
    /\ prod = IdP
    /\ StatusIds(model.vulnerabilities[1], heap) = <<<<IdQX>>, <<IdPX>>>>

\* A failure is always the failure of the first entry: an entry that kept
\* an id leaves the shared list non-empty for every test after it.
FailureIsOfFirstEntry ==
    (pc = "vuln_filtered" /\ ret = -1)
        => /\ orig.vulnerabilities[1].product_statuses # <<>>
           /\ SelectSeq(StatusIds(orig.vulnerabilities[1], origHeap)[1],
                        LAMBDA id : oscap_str_startswith(id, prod)) = <<>>


(***************************************************************************)
(* C26: a successful cvrf_model_filter_by_cpe changes the Relationship     *)
(* list and the id lists of the ProductStatus entries and nothing else:    *)
(* title, type, Document, product names, Branch tree and product groups,   *)
(* the Vulnerabilities in number and order, every other field of each      *)
(* Vulnerability, and the number and the category of its ProductStatus     *)
(* entries are as before the call.                                         *)
(***************************************************************************)
\* a Vulnerability without the id lists of its ProductStatus entries
WithoutIdLists(vuln) ==
    [vuln EXCEPT !.product_statuses =
        [j \in 1..Len(vuln.product_statuses) |-> vuln.product_statuses[j].type]]

C26_FrameOfSuccessfulFilter ==
    (pc = "filtered" /\ ret = 0)
        => /\ model.doc_title = orig.doc_title
           /\ model.doc_type = orig.doc_type
           /\ model.document = orig.document
           /\ model.tree.product_names = orig.tree.product_names
           /\ model.tree.branches = orig.tree.branches
           /\ model.tree.product_groups = orig.tree.product_groups
           /\ Len(model.vulnerabilities) = Len(orig.vulnerabilities)
           /\ \A i \in 1..Len(orig.vulnerabilities) :
                 WithoutIdLists(model.vulnerabilities[i])
                     = WithoutIdLists(orig.vulnerabilities[i])

\* a successful call that narrowed both the Relationships and an id list,
\* on a model with a Vulnerability it narrowed and one it left alone
C26_Witness ==
    /\ pc = "filtered"
    /\ ret = 0
    /\ Len(model.tree.relationships) < Len(orig.tree.relationships)
    /\ Len(orig.vulnerabilities) = 2
    /\ vrets = <<0, -1>>
    /\ ModelView(model, heap).vulnerabilities[1] # ModelView(orig, origHeap).vulnerabilities[1]
    /\ orig.vulnerabilities[2].product_statuses # <<>>


(***************************************************************************)
(* cvrf_session_free and the release routines under it, as the sequence of *)
(* objects handed to free, in the order of the calls.  A Model is named by *)
(* its place in the Index (0: the Model of a session made from one Model); *)
(* an id list is named by its address.                                     *)
(***************************************************************************)
ModelObject(k) == [kind |-> "model", id |-> k]
ListObject(a) == [kind |-> "stringlist", id |-> a]
SessionIdsObject == [kind |-> "session product_ids", id |-> 0]

\* cvrf_vulnerability_free: oscap_list_free(product_statuses, cvrf_product_status_free),
\* each entry releasing the list it holds
cvrf_vulnerability_free(vuln) ==
    [j \in 1..Len(vuln.product_statuses) |-> ListObject(vuln.product_statuses[j].product_ids)]

\* oscap_list_free(cvrf->vulnerabilities, cvrf_vulnerability_free)
RECURSIVE ReleaseVulnerabilities(_, _)
ReleaseVulnerabilities(vulns, i) ==
    IF i > Len(vulns)
    THEN <<>>
    ELSE cvrf_vulnerability_free(vulns[i]) \o ReleaseVulnerabilities(vulns, i + 1)

\* cvrf_model_free of the Model at place k
cvrf_model_free(k, m) ==
    IF m = Nil
    THEN <<>>
    ELSE ReleaseVulnerabilities(m.vulnerabilities, 1) \o <<ModelObject(k)>>

\* cvrf_index_free: oscap_list_free(index->models, cvrf_model_free)
RECURSIVE ReleaseModels(_, _)
ReleaseModels(models, k) ==
    IF k > Len(models)
    THEN <<>>
    ELSE cvrf_model_free(k, models[k]) \o ReleaseModels(models, k + 1)

cvrf_index_free(models) == ReleaseModels(models, 1)

\* cvrf_session_free: the Index, then session->model (the Model at place k),
\* then the matched-id list
cvrf_session_free(models, k, m) ==
    cvrf_index_free(models) \o cvrf_model_free(k, m) \o <<SessionIdsObject>>

\* The lists released while filtering (oscap_stringlist_free in
\* cvrf_vulnerability_filter_by_product), as the heap shows them
ReleasedByFilter(h) ==
    SelectSeq([a \in 1..Len(h) |-> IF h[a].live THEN Nil ELSE ListObject(a)],
              LAMBDA object : object # Nil)

\* the first place of a release sequence that names an object again, 0 if none
FirstRepeat(events) ==
    IF \E n \in 1..Len(events) : \E b \in 1..(n - 1) : events[b] = events[n]
    THEN CHOOSE n \in 1..Len(events) :
            /\ \E b \in 1..(n - 1) : events[b] = events[n]
            /\ \A n2 \in 1..(n - 1) : \A b \in 1..(n2 - 1) : events[b] # events[n2]
    ELSE 0

\* Releasing an object again is undefined: the run goes on as if nothing had
\* happened, or the allocator stops it at that release.
ReleaseOutcomes(events) ==
    IF FirstRepeat(events) = 0
    THEN {[crashed |-> FALSE, released |-> events]}
    ELSE {[crashed |-> FALSE, released |-> events],
          [crashed |-> TRUE, released |-> SubSeq(events, 1, FirstRepeat(events))]}

\* the heap after the releases: a released list is not live
RECURSIVE HeapAfter(_, _, _)
HeapAfter(h, events, n) ==
    IF n > Len(events)
    THEN h
    ELSE HeapAfter(IF events[n].kind = "stringlist" THEN FreeList(h, events[n].id) ELSE h,
                   events, n + 1)

(***************************************************************************)
(* SpecRelease: cvrf_export_results on a Model, or                         *)
(* cvrf_index_get_results_source on an Index of up to MaxModels Models,    *)
(* up to and including the cvrf_session_free that ends them.  A            *)
(* Vulnerability has no, one or two ProductStatus entries.                 *)
(***************************************************************************)
ReleaseBranchLists ==
    {<<LeafBranch(PlatformA, PlatformId), PackageBranch(PackageAb, <<"0", ":", "1">>)>>,
     <<LeafBranch(PlatformB, IdQ)>>}
ReleaseRelationshipLists ==
    {<<>>, <<Relationship(PackageAb \o <<"-", "0", ":", "1">>, PlatformId)>>}
ReleaseVulnerabilityLists ==
    {<<>>, <<<<>>>>, <<<<Affected(<<SynthIdAb>>)>>>>,
     <<<<Affected(<<SynthIdAb>>), [type |-> "FIXED", ids |-> <<SynthIdAb, IdQX>>]>>>>,
     <<<<Affected(<<IdQX>>), Affected(<<SynthIdAb>>)>>>>}
ReleaseModelShapes ==
    [branches : ReleaseBranchLists, relationships : ReleaseRelationshipLists,
     vs : ReleaseVulnerabilityLists]

InitRelease ==
    /\ \E shapes \in SeqsUpTo(ReleaseModelShapes, MaxModels), single \in BOOLEAN :
          /\ single => Len(shapes) = 1
          /\ index = IF single THEN <<>> ELSE IndexModels(shapes)
          /\ model = IF single THEN IndexModels(shapes)[1] ELSE Nil
          /\ heap = NewHeap(Flatten([k \in 1..Len(shapes) |-> shapes[k].vs]))
          /\ orig = IndexModels(shapes)
    /\ cpe \in {PlatformA, PlatformC}
    /\ prod = NULL
    /\ pc = "start"
    /\ ret = 0
    /\ origHeap = heap
    /\ vrets = <<>>
    /\ product_ids = <<>>
    /\ out = [crashed |-> FALSE, released |-> <<>>]
    /\ dom = Nil
    /\ def_model = oval_definition_model_new
    /\ it = 0
    /\ saved = Nil
    /\ reader = NoReader

\* what a run leaves once its session is freed: r is the session at the call
\* of cvrf_session_free, k the place of session->model in the Index
SessionFreed(r, models, k) ==
    /\ index' = models
    /\ model' = r.model
    /\ product_ids' = r.product_ids
    /\ def_model' = r.def_model
    /\ dom' = r.dom
    /\ \E freed \in (IF r.crashed
                     THEN {[crashed |-> TRUE, released |-> ReleasedByFilter(r.heap)]}
                     ELSE ReleaseOutcomes(ReleasedByFilter(r.heap)
                                          \o cvrf_session_free(models, k, r.model))) :
          /\ out' = freed
          /\ heap' = HeapAfter(r.heap, freed.released, 1)
          /\ pc' = IF freed.crashed THEN "crashed" ELSE "freed"

\* cvrf_export_results, the session made from one Model
ExportResultsAndFree ==
    /\ pc = "start"
    /\ model # Nil
    /\ \E r \in cvrf_export_results(model, heap, cpe) :
          /\ SessionFreed(r, <<>>, 0)
          /\ saved' = r.saved
          /\ ret' = r.ret
          /\ it' = it
    /\ UNCHANGED <<cpe, prod, orig, origHeap, vrets, reader>>

\* cvrf_index_get_results_source, the session made from an Index
IndexResultsAndFree ==
    /\ pc = "start"
    /\ model = Nil
    /\ \E r \in cvrf_index_get_results_source(index, heap, cpe) :
          /\ SessionFreed(r, r.models, r.it)
          /\ it' = r.it
          /\ saved' = saved
          /\ ret' = ret
    /\ UNCHANGED <<cpe, prod, orig, origHeap, vrets, reader>>

NextRelease == ExportResultsAndFree \/ IndexResultsAndFree

SpecRelease == InitRelease /\ [][NextRelease]_vars

(***************************************************************************)
(* C28: after cvrf_export_results or cvrf_index_get_results_source has     *)
(* freed its session, every Model and every id list was released exactly   *)
(* once: no Model of the Index was released through the Index and through  *)
(* the session's model as well, and no two ProductStatus entries held the  *)
(* same id list after filtering.                                           *)
(***************************************************************************)
TimesReleased(object) ==
    Cardinality({n \in 1..Len(out.released) : out.released[n] = object})

\* the places of the Models of the run: 0 for the one Model of an export
ModelPlaces == IF index = <<>> /\ model # Nil THEN {0} ELSE 1..Len(index)

\* the ProductStatus entries of the run, as <<place, vulnerability, entry>>
StatusEntries ==
    {<<0, i, j>> : i \in {i \in 1..MaxVulns : model # Nil /\ index = <<>>
                                              /\ i <= Len(model.vulnerabilities)},
                  j \in 1..MaxStatuses}
    \cup {<<k, i, j>> : k \in 1..Len(index), i \in 1..MaxVulns, j \in 1..MaxStatuses}

ModelAt(k) == IF k = 0 THEN model ELSE index[k]

HasEntry(e) ==
    /\ e[2] <= Len(ModelAt(e[1]).vulnerabilities)
    /\ e[3] <= Len(ModelAt(e[1]).vulnerabilities[e[2]].product_statuses)

ListOf(e) == ModelAt(e[1]).vulnerabilities[e[2]].product_statuses[e[3]].product_ids

C28_ReleasedExactlyOnce ==
    pc = "freed"
        => /\ \A k \in ModelPlaces : TimesReleased(ModelObject(k)) = 1
           /\ \A a \in 1..Len(heap) : TimesReleased(ListObject(a)) = 1
           /\ \A e1, e2 \in StatusEntries :
                 (HasEntry(e1) /\ HasEntry(e2) /\ e1 # e2) => ListOf(e1) # ListOf(e2)

\* The session's model is the last Model the loop took from the Index, so
\* the run that returns has released that Model twice.
LastIndexModelReleasedTwice ==
    (pc = "freed" /\ index # <<>>)
        => /\ TimesReleased(ModelObject(Len(index))) = 2
           /\ \A k \in 1..(Len(index) - 1) : TimesReleased(ModelObject(k)) = 1

\* The Model of an export is released once; its narrowed id list is
\* released once for every entry that holds it.
ExportReleasesPerEntry ==
    (pc = "freed" /\ index = <<>> /\ model # Nil)
        => /\ TimesReleased(ModelObject(0)) = 1
           /\ \A e \in StatusEntries :
                 HasEntry(e)
                     => TimesReleased(ListObject(ListOf(e)))
                            = Cardinality({e2 \in StatusEntries :
                                              HasEntry(e2) /\ ListOf(e2) = ListOf(e)})

\* The list made for a Vulnerability without ProductStatus entries is held
\* by nothing and never released.
ListNeverReleased ==
    /\ pc = "freed"
    /\ ret = 0
    /\ \E a \in 1..Len(heap) : TimesReleased(ListObject(a)) = 0 /\ heap[a].live

\* two entries of one Vulnerability hold the narrowed list, and the run
\* returned after releasing it for each of them
SharedListReleasedTwice ==
    /\ pc = "freed"
    /\ index = <<>>
    /\ \E e1, e2 \in StatusEntries :
          /\ HasEntry(e1) /\ HasEntry(e2) /\ e1 # e2
          /\ ListOf(e1) = ListOf(e2)
          /\ TimesReleased(ListObject(ListOf(e1))) = 2

\* ... or was stopped at the second release
StoppedAtSecondRelease ==
    /\ pc = "crashed"
    /\ out.released # <<>>
    /\ FirstRepeat(out.released) = Len(out.released)

\* a run that released everything once: no Vulnerability with two narrowed
\* entries, no Index
ReleasedOnceReached ==
    /\ pc = "freed"
    /\ index = <<>>
    /\ model # Nil
    /\ Len(model.vulnerabilities) = 1
    /\ Len(model.vulnerabilities[1].product_statuses) = 1
    /\ ret = 0
    /\ \A a \in 1..Len(heap) : TimesReleased(ListObject(a)) = 1


(***************************************************************************)
(* C29: the clone that cvrf_model_clone returns shares no storage with the *)
(* model it was made from: every string, the text and the id of each CWE   *)
(* of a Vulnerability included, and every list reachable from the clone is *)
(* a copy of its own, so that releasing both releases nothing twice.       *)
(***************************************************************************)
\* the cells that the pointers of the Vulnerabilities lead to
CellsOf(pointers) ==
    UNION {{pointers[i].title} \cup
           UNION {{pointers[i].cwes[n].cwe, pointers[i].cwes[n].id} :
                     n \in 1..Len(pointers[i].cwes)} :
           i \in 1..Len(pointers)} \ {NULL}

C29_CloneSharesNoStorage ==
    pc = "cloned"
        => /\ CellsOf(out.clone) \cap CellsOf(out.original) = {}
           /\ \A i \in 1..Len(model.vulnerabilities) :
                 \A j \in 1..Len(model.vulnerabilities[i].product_statuses) :
                    \A i2 \in 1..Len(orig.vulnerabilities) :
                       \A j2 \in 1..Len(orig.vulnerabilities[i2].product_statuses) :
                          model.vulnerabilities[i].product_statuses[j].product_ids
                              # orig.vulnerabilities[i2].product_statuses[j2].product_ids

\* What the clone shares with the original is the text and the id of every
\* CWE, and nothing else: the title is a copy and the id lists are new.
CloneSharesCweStrings ==
    pc = "cloned"
        => /\ CellsOf(out.clone) \cap CellsOf(out.original)
                = UNION {UNION {{out.original[i].cwes[n].cwe, out.original[i].cwes[n].id} :
                                   n \in 1..Len(out.original[i].cwes)} :
                         i \in 1..Len(out.original)} \ {NULL}
           /\ \A i \in 1..Len(out.clone) :
                 out.clone[i].title # NULL => Head(out.clone[i].title) = "clone"
           /\ \A i \in 1..Len(model.vulnerabilities) :
                 \A j \in 1..Len(model.vulnerabilities[i].product_statuses) :
                    model.vulnerabilities[i].product_statuses[j].product_ids > Len(origHeap)

\* a clone whose CWE points to the text of the original's CWE
SharedCweReached ==
    /\ pc = "cloned"
    /\ Len(out.clone) = 2
    /\ out.clone[2].cwes[1].cwe = Cell("original", <<2, 1, "cwe">>)
    /\ out.clone[2].title = Cell("clone", <<2, 0, "title">>)


(***************************************************************************)
(* C30: across the synthesis passes of one session, one pass per Model of  *)
(* the Index, the synthetic index N is paired with the same product id in  *)
(* every pass, and so with the same package name and EVR wherever the      *)
(* decomposition of that id is defined: the matched-id list grows by       *)
(* appending only and every pass numbers it from 1 in list order.          *)
(***************************************************************************)
\* the matched-id list of the session after the k-th Model
IdsAfter(k) == Flatten([j \in 1..k |-> MatchedIds(orig[j])])

\* the records the passes before the k-th made, of each kind
RecordsBefore(k) == Len(Flatten([j \in 1..(k - 1) |-> IdsAfter(j)]))

\* index N of the k-th pass was made from product_id: its records are those
\* of a decomposition of product_id under the tree of the k-th Model
MadeFrom(k, N, product_id) ==
    \E attributes \in parse_rpm_attributes_from_cvrf_product_id(orig[k].tree, product_id) :
        /\ def_model.definitions[RecordsBefore(k) + N] = DefinitionRecord(attributes, N)
        /\ def_model.tests[RecordsBefore(k) + N] = get_new_rpminfo_test_for_cvrf(attributes, N)
        /\ def_model.states[RecordsBefore(k) + N] = get_new_oval_state_for_cvrf(attributes, N)
        /\ def_model.objects[RecordsBefore(k) + N] = get_new_oval_object_for_cvrf(attributes, N)

\* the package name and the EVR that the records of index N of the k-th pass hold
NameAndEvr(k, N) ==
    <<def_model.objects[RecordsBefore(k) + N].contents[1].entity_name,
      def_model.states[RecordsBefore(k) + N].contents[2].value>>

====
